---- MODULE Spec2Model ----
(***************************************************************************)
(* Model of the fuzzy scoring and ranking engine (utils/scoring) and of    *)
(* the route code that calls it.                                           *)
(*                                                                         *)
(* Numbers.  A JavaScript number is modelled as an exact rational, the     *)
(* pair <<n, d>> in lowest terms with d > 0, or as the value NaN.          *)
(* IEEE-754 rounding is not modelled.  A missing property is the value     *)
(* Undefined.                                                              *)
(*                                                                         *)
(* Objects.  A plain object is the sequence of its <<key, value>> entries  *)
(* in insertion order (the order of Object.entries / Object.keys).         *)
(***************************************************************************)
EXTENDS Integers, Sequences, FiniteSets, TLC

VARIABLES
    pc,                \* which call has returned ("ready" before the call)
    attributes,        \* applyWSM / applyOWA / applyAlphaCut: attributes
    weights,           \* applyWSM / applyOWA: weights
    confidenceScores,  \* applyWSM / applyAlphaCut: confidenceScores
    owaWeights,        \* applyOWA: owaWeights
    alphaCutThreshold, \* applyAlphaCut / POST /final/:jobId: alphaCutThreshold
    aggregationMethod, \* POST /final/:jobId: aggregationMethod
    strategyProfile,   \* POST /final/:jobId: strategyProfile
    initialWeights,    \* applyDelphiTechnique: initialWeights
    values,            \* removeFuzzyOutliers: values
    candidates,        \* rankCandidates: candidates
    engine,            \* which Array.prototype.sort the runtime provides
    args,              \* the arguments of the other calls, by parameter name
    db,                \* the stored documents the routes read and write
    result             \* the value the call returned

\* the arguments of the call, the runtime and the stored documents: no call
\* of a scoring function changes them
inputs == <<attributes, weights, confidenceScores, owaWeights,
            alphaCutThreshold, aggregationMethod, strategyProfile,
            initialWeights, values, candidates, engine, args, db>>

vars == <<pc, result, inputs>>

(***************************************************************************)
(* Bounds of the model.                                                    *)
(***************************************************************************)
NumCriteria == 2
MaxStageCount == 3
MaxProposals == 4
MaxValues == 4
MaxCandidates == 3

(***************************************************************************)
(* JavaScript numbers as exact rationals.                                  *)
(***************************************************************************)
\* one-element tuples, so that they compare (unequal) with every rational
Undefined == <<"undefined">>
NaN == <<"NaN">>

Abs(i) == IF i < 0 THEN -i ELSE i

RECURSIVE GCD(_, _)
GCD(a, b) == IF b = 0 THEN a ELSE GCD(b, a % b)

\* n/d in lowest terms, d > 0
Rat(n, d) ==
    LET g == GCD(Abs(n), Abs(d))
        s == IF d < 0 THEN -1 ELSE 1
    IN  <<(s * n) \div g, (s * d) \div g>>

Zero == Rat(0, 1)
One == Rat(1, 1)

IsNum(x) == x # NaN /\ x # Undefined

Add(x, y) ==
    IF x = NaN \/ y = NaN THEN NaN
    ELSE Rat(x[1] * y[2] + y[1] * x[2], x[2] * y[2])

Sub(x, y) ==
    IF x = NaN \/ y = NaN THEN NaN
    ELSE Rat(x[1] * y[2] - y[1] * x[2], x[2] * y[2])

Mul(x, y) ==
    IF x = NaN \/ y = NaN THEN NaN
    ELSE Rat(x[1] * y[1], x[2] * y[2])

\* JavaScript division: 0/0 is NaN.  A non-zero number is never divided by
\* zero in the modelled code (every such division is guarded).
Div(x, y) ==
    IF x = NaN \/ y = NaN THEN NaN
    ELSE IF y[1] = 0 THEN NaN
    ELSE Rat(x[1] * y[2], x[2] * y[1])

\* comparisons; any comparison with NaN is false
Lt(x, y) == x # NaN /\ y # NaN /\ x[1] * y[2] < y[1] * x[2]
Gt(x, y) == Lt(y, x)
Le(x, y) == x # NaN /\ y # NaN /\ x[1] * y[2] <= y[1] * x[2]
Ge(x, y) == Le(y, x)

AbsR(x) == IF x = NaN THEN NaN ELSE Rat(Abs(x[1]), x[2])
MaxR(x, y) == IF x = NaN \/ y = NaN THEN NaN ELSE IF Gt(y, x) THEN y ELSE x

\* JavaScript truthiness of a number-or-undefined, and the `a || b` idiom
Falsy(x) == x = Undefined \/ x = NaN \/ x = Zero
OrElse(x, dflt) == IF Falsy(x) THEN dflt ELSE x

RECURSIVE SumSeq(_)
SumSeq(s) == IF s = <<>> THEN Zero ELSE Add(s[1], SumSeq(Tail(s)))

(***************************************************************************)
(* Plain objects.                                                          *)
(***************************************************************************)
KeysOf(obj) == {obj[i][1] : i \in 1..Len(obj)}

\* obj[key]
Get(obj, key) ==
    IF key \in KeysOf(obj)
    THEN obj[CHOOSE i \in 1..Len(obj) : obj[i][1] = key][2]
    ELSE Undefined

\* the object {1: f[1], ..., n: f[n]} without the keys f maps to undefined
RECURSIVE ObjUpTo(_, _)
ObjUpTo(f, n) ==
    IF n = 0 THEN <<>>
    ELSE IF f[n] = Undefined THEN ObjUpTo(f, n - 1)
    ELSE Append(ObjUpTo(f, n - 1), <<n, f[n]>>)

\* every object over keys 1..n with values in V, keys inserted in order
ObjectsOver(n, V) == {ObjUpTo(f, n) : f \in [1..n -> V \cup {Undefined}]}

\* every sequence over S of length at most n
SeqsUpTo(S, n) == UNION {[1..k -> S] : k \in 0..n}

(***************************************************************************)
(* Values the inputs are drawn from.                                       *)
(***************************************************************************)
ScoreVals == {Zero, Rat(1, 2), One}
WeightVals == {Zero, Rat(1, 2), One}
ConfVals == {Zero, Rat(1, 2), One}

(***************************************************************************)
(* applyWSM                                                                *)
(***************************************************************************)
\* the for-loop over Object.entries(weights), from entry i on
RECURSIVE WSMLoop(_, _, _, _, _)
WSMLoop(attrs, wts, confs, i, acc) ==
    IF i > Len(wts) THEN acc
    ELSE LET key == wts[i][1]
             weight == wts[i][2]
         IN  IF Get(attrs, key) # Undefined
             THEN LET attributeValue == Get(attrs, key)
                      confidence == OrElse(Get(confs, key), One)
                      adjustedWeight == Mul(weight, confidence)
                  IN  WSMLoop(attrs, wts, confs, i + 1,
                        [score |-> Add(acc.score, Mul(attributeValue, adjustedWeight)),
                         totalWeight |-> Add(acc.totalWeight, adjustedWeight),
                         totalConfidence |-> Add(acc.totalConfidence, confidence)])
             ELSE WSMLoop(attrs, wts, confs, i + 1, acc)

\* mutant of applyWSM: the weighted sum is returned without normalising it
\* by the weights used
ApplyWSMUnnormalised(attrs, wts, confs) ==
    LET acc == WSMLoop(attrs, wts, confs, 1,
                 [score |-> Zero, totalWeight |-> Zero, totalConfidence |-> Zero])
        averageConfidence == IF Len(wts) > 0
                             THEN Div(acc.totalConfidence, Rat(Len(wts), 1))
                             ELSE One
    IN  [score |-> acc.score, confidence |-> averageConfidence]

applyWSM(attrs, wts, confs) ==
    LET acc == WSMLoop(attrs, wts, confs, 1,
                 [score |-> Zero, totalWeight |-> Zero, totalConfidence |-> Zero])
        weightedScore == IF Gt(acc.totalWeight, Zero)
                         THEN Div(acc.score, acc.totalWeight) ELSE Zero
        averageConfidence == IF Len(wts) > 0
                             THEN Div(acc.totalConfidence, Rat(Len(wts), 1))
                             ELSE One
    IN  [score |-> weightedScore, confidence |-> averageConfidence]

(***************************************************************************)
(* aggregateStageScores                                                    *)
(***************************************************************************)
\* the for-loop over Object.entries(stageScores), from entry i on
RECURSIVE AggregateLoop(_, _, _, _, _)
AggregateLoop(stageScores, stageWeights, stageConfidences, i, acc) ==
    IF i > Len(stageScores) THEN acc
    ELSE LET stage == stageScores[i][1]
             score == stageScores[i][2]
         IN  IF ~Falsy(Get(stageWeights, stage))
             THEN LET weight == Get(stageWeights, stage)
                      confidence == OrElse(Get(stageConfidences, stage), One)
                      adjustedWeight == Mul(weight, confidence)
                  IN  AggregateLoop(stageScores, stageWeights, stageConfidences, i + 1,
                        [finalScore |-> Add(acc.finalScore, Mul(score, adjustedWeight)),
                         totalWeight |-> Add(acc.totalWeight, adjustedWeight),
                         totalConfidence |-> Add(acc.totalConfidence, confidence)])
             ELSE AggregateLoop(stageScores, stageWeights, stageConfidences, i + 1, acc)

aggregateStageScores(stageScores, stageWeights, stageConfidences) ==
    LET acc == AggregateLoop(stageScores, stageWeights, stageConfidences, 1,
                 [finalScore |-> Zero, totalWeight |-> Zero, totalConfidence |-> Zero])
        normalizedScore == IF Gt(acc.totalWeight, Zero)
                           THEN Div(acc.finalScore, acc.totalWeight) ELSE Zero
        averageConfidence == IF Len(stageWeights) > 0
                             THEN Div(acc.totalConfidence, Rat(Len(stageWeights), 1))
                             ELSE One
    IN  [score |-> normalizedScore, confidence |-> averageConfidence]

(***************************************************************************)
(* Specification SpecWSM: one call of applyWSM or aggregateStageScores on  *)
(* arbitrary attribute, weight and confidence maps.                        *)
(***************************************************************************)
NoObject == <<>>
NoResult == <<>>
NoArgs == <<>>
NoDb == <<>>

InitWSM ==
    /\ pc = "ready"
    /\ attributes \in ObjectsOver(NumCriteria, ScoreVals)
    /\ weights \in ObjectsOver(NumCriteria, WeightVals)
    /\ confidenceScores \in ObjectsOver(NumCriteria, ConfVals)
    /\ owaWeights = <<>>
    /\ alphaCutThreshold = Zero
    /\ aggregationMethod = "wsm"
    /\ strategyProfile = "balanced"
    /\ initialWeights = <<>>
    /\ values = <<>>
    /\ candidates = <<>>
    /\ engine = "none"
    /\ args = NoArgs
    /\ db = NoDb
    /\ result = NoResult

CallApplyWSM ==
    /\ pc = "ready"
    /\ pc' = "applyWSM"
    /\ result' = applyWSM(attributes, weights, confidenceScores)
    /\ UNCHANGED inputs

CallAggregateStageScores ==
    /\ pc = "ready"
    /\ pc' = "aggregateStageScores"
    /\ result' = aggregateStageScores(attributes, weights, confidenceScores)
    /\ UNCHANGED inputs

NextWSM == CallApplyWSM \/ CallAggregateStageScores

SpecWSM == InitWSM /\ [][NextWSM]_vars

\* the confidence of a criterion as the contract states it: the supplied
\* value, 1.0 only when none is supplied
StatedConfidence(confs, key) ==
    IF Get(confs, key) = Undefined THEN One ELSE Get(confs, key)

\* the weight keys that have a score, as positions of the weight map
Matched(attrs, wts) == {i \in 1..Len(wts) : Get(attrs, wts[i][1]) # Undefined}

StatedNumerator(attrs, wts, confs) ==
    SumSeq([i \in 1..Len(wts) |->
              IF i \in Matched(attrs, wts)
              THEN Mul(Mul(Get(attrs, wts[i][1]), wts[i][2]),
                       StatedConfidence(confs, wts[i][1]))
              ELSE Zero])

StatedDenominator(attrs, wts, confs) ==
    SumSeq([i \in 1..Len(wts) |->
              IF i \in Matched(attrs, wts)
              THEN Mul(wts[i][2], StatedConfidence(confs, wts[i][1]))
              ELSE Zero])

\* C1: whenever the denominator is positive, the score returned by applyWSM
\* and by aggregateStageScores is
\* sum(score_i * weight_i * confidence_i) / sum(weight_i * confidence_i)
\* over the weight keys that have a score, a confidence counting as 1.0 only
\* when none is supplied for the key.
C1_ScoreIsWeightedMean ==
    (/\ pc \in {"applyWSM", "aggregateStageScores"}
     /\ Gt(StatedDenominator(attributes, weights, confidenceScores), Zero))
    => result.score = Div(StatedNumerator(attributes, weights, confidenceScores),
                          StatedDenominator(attributes, weights, confidenceScores))

\* C2: the confidence returned by applyWSM is the arithmetic mean of the
\* confidences of all declared weight keys, an unsupplied one counting as 1.0.
C2_ConfidenceIsMeanOverDeclared ==
    (pc = "applyWSM" /\ Len(weights) > 0)
    => result.confidence =
         Div(SumSeq([i \in 1..Len(weights) |->
                       StatedConfidence(confidenceScores, weights[i][1])]),
             Rat(Len(weights), 1))

(***************************************************************************)
(* Array.prototype.sort(comparator).                                       *)
(*                                                                         *)
(* The array is sorted through its index sequence p (a permutation of      *)
(* 1..n); order[i][j] is the sign of comparator(array[i], array[j]).       *)
(* With a consistent comparator the language fixes the outcome (a stable   *)
(* sort).  With an inconsistent one the order is implementation-defined,   *)
(* so the runtime's algorithm decides; the model follows the two that V8   *)
(* has used for short arrays: TimSort's run detection followed by binary   *)
(* insertion ("timsort"), and linear insertion sort ("insertion").         *)
(***************************************************************************)
Engines == {"timsort", "insertion"}

Sign(x) == IF x[1] < 0 THEN -1 ELSE IF x[1] > 0 THEN 1 ELSE 0

Reverse(s) == [i \in 1..Len(s) |-> s[Len(s) + 1 - i]]

\* TimSort, CountAndMakeRun: last position of the run that starts at 1
RECURSIVE RunEnd(_, _, _, _)
RunEnd(p, order, isDescending, idx) ==
    IF idx > Len(p) THEN Len(p)
    ELSE LET o == order[p[idx]][p[idx - 1]]
         IN  IF (isDescending /\ o >= 0) \/ (~isDescending /\ o < 0)
             THEN idx - 1
             ELSE RunEnd(p, order, isDescending, idx + 1)

\* TimSort, BinaryInsertionSort: where the pivot goes in p[1..right]
\* (left and right are 0-based as in the algorithm)
RECURSIVE BinarySearch(_, _, _, _, _)
BinarySearch(p, order, pivot, left, right) ==
    IF left >= right THEN left
    ELSE LET mid == left + ((right - left) \div 2)
         IN  IF order[pivot][p[mid + 1]] < 0
             THEN BinarySearch(p, order, pivot, left, mid)
             ELSE BinarySearch(p, order, pivot, mid + 1, right)

\* p with the element at position from moved to just after position pos
MoveTo(p, from, pos) ==
    SubSeq(p, 1, pos) \o <<p[from]>> \o SubSeq(p, pos + 1, from - 1)
      \o SubSeq(p, from + 1, Len(p))

RECURSIVE BinaryInsertionSort(_, _, _)
BinaryInsertionSort(p, order, start) ==
    IF start > Len(p) THEN p
    ELSE BinaryInsertionSort(
           MoveTo(p, start, BinarySearch(p, order, p[start], 0, start - 1)),
           order, start + 1)

TimSort(p, order) ==
    IF Len(p) < 2 THEN p
    ELSE LET isDescending == order[p[2]][p[1]] < 0
             runLength == RunEnd(p, order, isDescending, 3)
             run == IF isDescending
                    THEN Reverse(SubSeq(p, 1, runLength))
                           \o SubSeq(p, runLength + 1, Len(p))
                    ELSE p
         IN  BinaryInsertionSort(run, order, runLength + 1)

\* linear insertion sort: the position after which the element is put
RECURSIVE InsertionPoint(_, _, _, _)
InsertionPoint(p, order, element, j) ==
    IF j = 0 THEN 0
    ELSE IF order[p[j]][element] > 0
         THEN InsertionPoint(p, order, element, j - 1)
         ELSE j

RECURSIVE InsertionSort(_, _, _)
InsertionSort(p, order, i) ==
    IF i > Len(p) THEN p
    ELSE InsertionSort(
           MoveTo(p, i, InsertionPoint(p, order, p[i], i - 1)), order, i + 1)

\* the sorted order of an n-element array, as the sequence of original indices
SortPerm(n, order, eng) ==
    LET identity == [i \in 1..n |-> i]
    IN  IF eng = "timsort" THEN TimSort(identity, order)
        ELSE InsertionSort(identity, order, 2)

(***************************************************************************)
(* applyOWA                                                                *)
(***************************************************************************)
\* mutant of SortedPairs: the comparator a[1] - b[1] (ascending)
SortedPairsAscending(attrs) ==
    LET order == [i \in 1..Len(attrs) |-> [j \in 1..Len(attrs) |->
                    Sign(Sub(attrs[i][2], attrs[j][2]))]]
        perm == SortPerm(Len(attrs), order, engine)
    IN  [k \in 1..Len(attrs) |-> attrs[perm[k]]]

\* Object.entries(attributes).sort((a, b) => b[1] - a[1])
SortedPairs(attrs) ==
    LET order == [i \in 1..Len(attrs) |-> [j \in 1..Len(attrs) |->
                    Sign(Sub(attrs[j][2], attrs[i][2]))]]
        perm == SortPerm(Len(attrs), order, engine)
    IN  [k \in 1..Len(attrs) |-> attrs[perm[k]]]

\* sortedPairs.forEach, from pair k on (index = k - 1)
RECURSIVE OWALoop(_, _, _, _, _)
OWALoop(sortedPairs, wts, owa, k, acc) ==
    IF k > Len(sortedPairs) THEN acc
    ELSE LET key == sortedPairs[k][1]
             value == sortedPairs[k][2]
             criterionWeight == OrElse(Get(wts, key), Zero)
             owaWeight == IF k - 1 < Len(owa) THEN owa[k] ELSE Zero
         IN  OWALoop(sortedPairs, wts, owa, k + 1,
               [score |-> Add(acc.score, Mul(Mul(value, criterionWeight), owaWeight)),
                totalAppliedWeight |->
                    Add(acc.totalAppliedWeight, Mul(criterionWeight, owaWeight))])

applyOWA(attrs, wts, owa) ==
    LET sortedPairs == SortedPairs(attrs)
        acc == OWALoop(sortedPairs, wts, owa, 1,
                 [score |-> Zero, totalAppliedWeight |-> Zero])
    IN  [score |-> IF Gt(acc.totalAppliedWeight, Zero)
                   THEN Div(acc.score, acc.totalAppliedWeight) ELSE Zero,
         sortedPairs |-> sortedPairs]

(***************************************************************************)
(* POST /final/:jobId: the positional weights of a strategy profile        *)
(***************************************************************************)
Stages == <<"phoneScreen", "codingInterview", "onsiteInterview">>
StageSet == {Stages[i] : i \in 1..Len(Stages)}

ProfileWeights(profile, stageCount) ==
    LET triangle == (stageCount * (stageCount + 1)) \div 2
        raw == CASE profile = "optimistic" ->
                      [i \in 1..stageCount |-> Rat(stageCount - (i - 1), triangle)]
                 [] profile = "pessimistic" ->
                      [i \in 1..stageCount |-> Rat(i, triangle)]
                 [] OTHER ->
                      [i \in 1..stageCount |-> Rat(1, stageCount)]
        totalOwaWeight == SumSeq(raw)
    IN  IF totalOwaWeight # One
        THEN [i \in 1..stageCount |-> Div(raw[i], totalOwaWeight)]
        ELSE raw

Profiles == {"optimistic", "pessimistic", "balanced"}

(***************************************************************************)
(* Specification SpecOWA: one call of applyOWA.  The attribute map has its *)
(* keys in any insertion order.                                            *)
(***************************************************************************)
\* every object over the keys K with values in V, in every insertion order
AllObjects(K, V) ==
    {obj \in SeqsUpTo(K \X V, Cardinality(K)) :
        \A i, j \in 1..Len(obj) : i # j => obj[i][1] # obj[j][1]}

\* the object over the keys of the sequence ks with values f[i], keys in order
RECURSIVE ObjOfSeq(_, _, _)
ObjOfSeq(ks, f, n) ==
    IF n = 0 THEN <<>>
    ELSE IF f[n] = Undefined THEN ObjOfSeq(ks, f, n - 1)
    ELSE Append(ObjOfSeq(ks, f, n - 1), <<ks[n], f[n]>>)

StageObjects(V) ==
    {ObjOfSeq(Stages, f, Len(Stages)) : f \in [1..Len(Stages) -> V \cup {Undefined}]}

OwaVectors ==
    {ProfileWeights(sp, n) : sp \in Profiles, n \in 1..MaxStageCount}
      \cup {<<>>, <<One>>, <<Zero, One>>}

InitOWA ==
    /\ pc = "ready"
    /\ attributes \in AllObjects(StageSet, ScoreVals)
    /\ weights \in StageObjects({Rat(1, 2), One})
    /\ confidenceScores = NoObject
    /\ owaWeights \in OwaVectors
    /\ alphaCutThreshold = Zero
    /\ aggregationMethod = "owa"
    /\ strategyProfile = "custom"
    /\ initialWeights = <<>>
    /\ values = <<>>
    /\ candidates = <<>>
    /\ engine \in Engines
    /\ args = NoArgs
    /\ db = NoDb
    /\ result = NoResult

CallApplyOWA ==
    /\ pc = "ready"
    /\ pc' = "applyOWA"
    /\ result' = applyOWA(attributes, weights, owaWeights)
    /\ UNCHANGED inputs

NextOWA == CallApplyOWA

SpecOWA == InitOWA /\ [][NextOWA]_vars

\* the declared weight of a criterion, 0 if undeclared
DeclaredWeight(wts, key) ==
    IF Get(wts, key) = Undefined THEN Zero ELSE Get(wts, key)

\* the positional weight of 1-based position i, 0 beyond the vector
PositionalWeight(owa, i) == IF i <= Len(owa) THEN owa[i] ELSE Zero

\* s is a rearrangement of t
IsPermutationOf(s, t) ==
    /\ Len(s) = Len(t)
    /\ \A x \in {s[i] : i \in 1..Len(s)} \cup {t[i] : i \in 1..Len(t)} :
          Cardinality({i \in 1..Len(s) : s[i] = x})
            = Cardinality({i \in 1..Len(t) : t[i] = x})

OwaNumerator(pairs, wts, owa) ==
    SumSeq([i \in 1..Len(pairs) |->
              Mul(Mul(pairs[i][2], DeclaredWeight(wts, pairs[i][1])),
                  PositionalWeight(owa, i))])

OwaDenominator(pairs, wts, owa) ==
    SumSeq([i \in 1..Len(pairs) |->
              Mul(DeclaredWeight(wts, pairs[i][1]), PositionalWeight(owa, i))])

\* a positional vector that gives every pair the same positive weight
UniformFor(owa, n) ==
    /\ Len(owa) >= n
    /\ \A i \in 1..n : owa[i] = owa[1] /\ Gt(owa[i], Zero)

\* every criterion of the attribute map has the same positive declared weight
EqualDeclared(attrs, wts) ==
    \A i, j \in 1..Len(attrs) :
        /\ Get(wts, attrs[i][1]) # Undefined
        /\ Get(wts, attrs[i][1]) = Get(wts, attrs[j][1])
        /\ Gt(Get(wts, attrs[i][1]), Zero)

\* C3: applyOWA orders the pairs by descending score, weighs the pair at
\* position i by its criterion's declared weight times the positional weight
\* ow_i (0 beyond the vector) and returns the weighted mean (when the weight
\* total is positive); with a uniform positional vector and equal positive
\* declared weights that is the unweighted mean of the scores.
C3_OwaIsOrderedWeightedMean ==
    pc = "applyOWA" =>
      LET pairs == result.sortedPairs
          n == Len(attributes)
      IN  /\ IsPermutationOf(pairs, attributes)
          /\ \A i \in 1..(n - 1) : Ge(pairs[i][2], pairs[i + 1][2])
          /\ Gt(OwaDenominator(pairs, weights, owaWeights), Zero)
               => result.score = Div(OwaNumerator(pairs, weights, owaWeights),
                                     OwaDenominator(pairs, weights, owaWeights))
          /\ (n > 0 /\ UniformFor(owaWeights, n) /\ EqualDeclared(attributes, weights))
               => result.score =
                    Div(SumSeq([i \in 1..n |-> attributes[i][2]]), Rat(n, 1))

\* C3 witness: three criteria with distinct declared weights, scores out of
\* order in the attribute map, and a non-uniform positional vector
C3_Witness ==
    /\ pc = "applyOWA"
    /\ Len(attributes) = 3
    /\ Lt(attributes[1][2], attributes[2][2])
    /\ Get(weights, attributes[1][1]) # Get(weights, attributes[2][1])
    /\ Get(weights, attributes[1][1]) # Undefined
    /\ Get(weights, attributes[2][1]) # Undefined
    /\ owaWeights = ProfileWeights("optimistic", 3)
    /\ Gt(result.score, Zero)

\* C3 witness of the special case: balanced vector, equal weights, mixed scores
C3_WitnessBalanced ==
    /\ pc = "applyOWA"
    /\ Len(attributes) = 3
    /\ UniformFor(owaWeights, 3)
    /\ EqualDeclared(attributes, weights)
    /\ attributes[1][2] # attributes[2][2]
    /\ result.score = Div(SumSeq([i \in 1..3 |-> attributes[i][2]]), Rat(3, 1))

(***************************************************************************)
(* applyAlphaCut                                                           *)
(***************************************************************************)
\* the for-loop over Object.entries(attributes), from entry i on
RECURSIVE AlphaCutLoop(_, _, _, _, _)
AlphaCutLoop(attrs, confs, threshold, i, filteredAttributes) ==
    IF i > Len(attrs) THEN filteredAttributes
    ELSE LET key == attrs[i][1]
             value == attrs[i][2]
             confidence == OrElse(Get(confs, key), One)
         IN  AlphaCutLoop(attrs, confs, threshold, i + 1,
               IF Ge(confidence, threshold)
               THEN Append(filteredAttributes, <<key, value>>)
               ELSE filteredAttributes)

applyAlphaCut(attrs, confs, threshold) ==
    AlphaCutLoop(attrs, confs, threshold, 1, <<>>)

(***************************************************************************)
(* POST /final/:jobId, for one candidate of the job.  The candidate's      *)
(* stages are read from `attributes` (stages.<stage>.score) and            *)
(* `confidenceScores` (stages.<stage>.confidence); `weights` is the        *)
(* request's stageWeights and `owaWeights` its custom vector.              *)
(***************************************************************************)
\* an object with all of the keys ks, in order, and the values f[i]
FullObject(ks, f) == [i \in 1..Len(ks) |-> <<ks[i], f[i]>>]

DefaultStageWeights == <<Rat(3, 10), Rat(4, 10), Rat(3, 10)>>

FinalStageWeights(stageWeights) ==
    LET raw == [i \in 1..Len(Stages) |->
                  OrElse(Get(stageWeights, Stages[i]), DefaultStageWeights[i])]
        totalWeight == SumSeq(raw)
    IN  FullObject(Stages,
          IF totalWeight # One
          THEN [i \in 1..Len(Stages) |-> Div(raw[i], totalWeight)]
          ELSE raw)

\* the positional weights the request selects (only computed for 'owa')
RequestOwaWeights(profile, customOwaWeights, finalStageWeights) ==
    LET chosen == IF profile = "custom" /\ customOwaWeights # Undefined
                  THEN customOwaWeights
                  ELSE ProfileWeights(profile, Len(finalStageWeights))
        totalOwaWeight == SumSeq(chosen)
    IN  IF totalOwaWeight # One
        THEN [i \in 1..Len(chosen) |-> Div(chosen[i], totalOwaWeight)]
        ELSE chosen

\* the `delete stageScores[stage]` loop of the alpha-cut
RECURSIVE DeleteLowConfidence(_, _, _, _)
DeleteLowConfidence(stageScores, stageConfidences, threshold, i) ==
    IF i > Len(stageScores) THEN <<>>
    ELSE LET rest == DeleteLowConfidence(stageScores, stageConfidences, threshold, i + 1)
         IN  IF Lt(Get(stageConfidences, stageScores[i][1]), threshold)
             THEN rest
             ELSE <<stageScores[i]>> \o rest

FinalScore(stageData, confidenceData, stageWeights, method, profile, custom, threshold) ==
    LET finalStageWeights == FinalStageWeights(stageWeights)
        owa == IF method = "owa"
               THEN RequestOwaWeights(profile, custom, finalStageWeights)
               ELSE Undefined
        allScores == FullObject(Stages,
                       [i \in 1..Len(Stages) |-> OrElse(Get(stageData, Stages[i]), Zero)])
        stageConfidences == FullObject(Stages,
                       [i \in 1..Len(Stages) |-> OrElse(Get(confidenceData, Stages[i]), One)])
        stageScores == IF Gt(threshold, Zero)
                       THEN DeleteLowConfidence(allScores, stageConfidences, threshold, 1)
                       ELSE allScores
        usedStages == [i \in 1..Len(stageScores) |->
                         Get(stageConfidences, stageScores[i][1])]
        wsm == aggregateStageScores(stageScores, finalStageWeights, stageConfidences)
    IN  [finalStageWeights |-> finalStageWeights,
         owaWeights |-> owa,
         stageScores |-> stageScores,
         stageConfidences |-> stageConfidences,
         finalScore |-> IF method = "owa"
                        THEN applyOWA(stageScores, finalStageWeights, owa).score
                        ELSE wsm.score,
         confidenceScore |-> IF method = "owa"
                             THEN IF Len(usedStages) > 0
                                  THEN Div(SumSeq(usedStages), Rat(Len(usedStages), 1))
                                  ELSE Rat(1, 2)
                             ELSE wsm.confidence]

(***************************************************************************)
(* Specification SpecFinal: an alpha-cut, either as one call of            *)
(* applyAlphaCut or inside one POST /final/:jobId request.                 *)
(***************************************************************************)
ThresholdVals == {Zero, Rat(1, 2), One}

RequestStageWeights ==
    {<<>>,
     <<<<"phoneScreen", Rat(1, 2)>>, <<"codingInterview", Rat(1, 2)>>,
       <<"onsiteInterview", One>>>>}

CustomOwaVectors == {<<One>>, <<Rat(1, 2), Rat(1, 2), One>>}

InitFinal ==
    /\ pc = "ready"
    /\ attributes \in StageObjects({Rat(1, 2), One})
    /\ weights \in RequestStageWeights
    /\ confidenceScores \in StageObjects({Zero, Rat(1, 2)})
    /\ alphaCutThreshold \in ThresholdVals
    /\ \/ aggregationMethod = "wsm" /\ strategyProfile = "balanced"
             /\ owaWeights = Undefined
       \/ aggregationMethod = "owa" /\ strategyProfile \in Profiles
             /\ owaWeights = Undefined
       \/ aggregationMethod = "owa" /\ strategyProfile = "custom"
             /\ owaWeights \in CustomOwaVectors
    /\ initialWeights = <<>>
    /\ values = <<>>
    /\ candidates = <<>>
    /\ engine = "timsort"   \* the comparator of applyOWA is consistent
    /\ args = NoArgs
    /\ db = NoDb
    /\ result = NoResult

CallApplyAlphaCut ==
    /\ pc = "ready"
    /\ pc' = "applyAlphaCut"
    /\ result' = applyAlphaCut(attributes, confidenceScores, alphaCutThreshold)
    /\ UNCHANGED inputs

PostFinal ==
    /\ pc = "ready"
    /\ pc' = "final"
    /\ result' = FinalScore(attributes, confidenceScores, weights, aggregationMethod,
                            strategyProfile, owaWeights, alphaCutThreshold)
    /\ UNCHANGED inputs

NextFinal == CallApplyAlphaCut \/ PostFinal

SpecFinal == InitFinal /\ [][NextFinal]_vars

\* the entries of attrs whose stated confidence is at least the threshold
RECURSIVE ConfidentEntries(_, _, _)
ConfidentEntries(attrs, confs, threshold) ==
    IF attrs = <<>> THEN <<>>
    ELSE IF Ge(StatedConfidence(confs, Head(attrs)[1]), threshold)
         THEN <<Head(attrs)>> \o ConfidentEntries(Tail(attrs), confs, threshold)
         ELSE ConfidentEntries(Tail(attrs), confs, threshold)

\* C4: applyAlphaCut returns exactly the attributes whose confidence is at
\* least the threshold (1.0 only when none is supplied), values unchanged;
\* and in the final-score request a stage whose supplied confidence is below
\* the threshold is not among the stage scores that are aggregated.
C4_AlphaCutKeepsExactlyConfident ==
    /\ pc = "applyAlphaCut" =>
         result = ConfidentEntries(attributes, confidenceScores, alphaCutThreshold)
    /\ pc = "final" =>
         \A i \in 1..Len(confidenceScores) :
            Lt(confidenceScores[i][2], alphaCutThreshold)
              => confidenceScores[i][1] \notin KeysOf(result.stageScores)

(***************************************************************************)
(* calculateMedian, removeFuzzyOutliers                                    *)
(***************************************************************************)
\* [...arr].sort((a, b) => a - b)
SortedAscending(arr) ==
    LET order == [i \in 1..Len(arr) |-> [j \in 1..Len(arr) |->
                    Sign(Sub(arr[i], arr[j]))]]
        perm == SortPerm(Len(arr), order, engine)
    IN  [k \in 1..Len(arr) |-> arr[perm[k]]]

\* mutant of MiddleOf: sorted[mid] also for an even length
MiddleOfUpper(sorted) ==
    IF Len(sorted) = 0 THEN NaN ELSE sorted[(Len(sorted) \div 2) + 1]

\* sorted.length % 2 === 0 ? (sorted[mid - 1] + sorted[mid]) / 2 : sorted[mid]
\* with mid = Math.floor(sorted.length / 2), 0-based; an index outside the
\* array reads undefined and the arithmetic on it gives NaN
MiddleOf(sorted) ==
    LET mid == Len(sorted) \div 2
    IN  IF Len(sorted) = 0 THEN NaN
        ELSE IF Len(sorted) % 2 = 0
             THEN Div(Add(sorted[mid], sorted[mid + 1]), Rat(2, 1))
             ELSE sorted[mid + 1]

calculateMedian(arr) == MiddleOf(SortedAscending(arr))

DefaultFuzzyThreshold == Rat(2, 10)
MadScale == Rat(14826, 10000)

removeFuzzyOutliers(vals, fuzzyThreshold) ==
    IF Len(vals) <= 2 THEN vals
    ELSE LET sorted == SortedAscending(vals)
             medianValue == MiddleOf(sorted)
             deviations == [i \in 1..Len(sorted) |-> AbsR(Sub(sorted[i], medianValue))]
             mad == calculateMedian(deviations)
             Keep(v) ==
                 LET deviation == AbsR(Sub(v, medianValue))
                 IN  IF mad = Zero THEN v = medianValue
                     ELSE LET normalMembership ==
                                  MaxR(Zero,
                                       Sub(One, Div(deviation,
                                                    Mul(Mul(fuzzyThreshold, mad), MadScale))))
                          IN  Gt(normalMembership, Rat(1, 2))
         IN  SelectSeq(vals, Keep)

(***************************************************************************)
(* applyDelphiTechnique                                                    *)
(***************************************************************************)
\* allCriteria: the criteria of proposals 1..n in order of first appearance
RECURSIVE AllCriteria(_, _)
AllCriteria(proposals, n) ==
    IF n = 0 THEN <<>>
    ELSE LET before == AllCriteria(proposals, n - 1)
             seen == {before[i] : i \in 1..Len(before)}
             keys == [i \in 1..Len(proposals[n]) |-> proposals[n][i][1]]
         IN  before \o SelectSeq(keys, LAMBDA k : k \notin seen)

\* weightsByAttribute[criterion]: the truthy hrWeights[criterion], in order
GatherWeights(proposals, criterion) ==
    LET proposed == [i \in 1..Len(proposals) |-> Get(proposals[i], criterion)]
    IN  SelectSeq(proposed, LAMBDA w : ~Falsy(w))

applyDelphiTechnique(proposals) ==
    LET allCriteria == AllCriteria(proposals, Len(proposals))
        weightsByAttribute ==
            [i \in 1..Len(allCriteria) |->
                <<allCriteria[i], GatherWeights(proposals, allCriteria[i])>>]
        aggregated ==
            [i \in 1..Len(allCriteria) |->
                LET filteredWeights ==
                        removeFuzzyOutliers(weightsByAttribute[i][2], DefaultFuzzyThreshold)
                IN  Div(SumSeq(filteredWeights), Rat(Len(filteredWeights), 1))]
        totalWeight == SumSeq(aggregated)
        finalWeights ==
            [i \in 1..Len(allCriteria) |->
                <<allCriteria[i],
                  IF Gt(totalWeight, Zero)
                  THEN Div(aggregated[i], totalWeight)
                  ELSE aggregated[i]>>]
    IN  [finalWeights |-> finalWeights, weightsByAttribute |-> weightsByAttribute]

(***************************************************************************)
(* Specification SpecOutliers: one call of removeFuzzyOutliers with the    *)
(* default tolerance.                                                      *)
(***************************************************************************)
OutlierVals == {Rat(1, 10), Rat(1, 2), Rat(13, 25), Rat(9, 10)}

InitOutliers ==
    /\ pc = "ready"
    /\ attributes = NoObject
    /\ weights = NoObject
    /\ confidenceScores = NoObject
    /\ owaWeights = <<>>
    /\ alphaCutThreshold = Zero
    /\ aggregationMethod = "wsm"
    /\ strategyProfile = "balanced"
    /\ initialWeights = <<>>
    /\ values \in SeqsUpTo(OutlierVals, MaxValues)
    /\ candidates = <<>>
    /\ engine \in Engines
    /\ args = NoArgs
    /\ db = NoDb
    /\ result = NoResult

CallRemoveFuzzyOutliers ==
    /\ pc = "ready"
    /\ pc' = "removeFuzzyOutliers"
    /\ result' = removeFuzzyOutliers(values, DefaultFuzzyThreshold)
    /\ UNCHANGED inputs

NextOutliers == CallRemoveFuzzyOutliers

SpecOutliers == InitOutliers /\ [][NextOutliers]_vars

\* the k-th smallest element of a non-empty sequence, by counting
KthSmallest(s, k) ==
    CHOOSE v \in {s[i] : i \in 1..Len(s)} :
        /\ Cardinality({i \in 1..Len(s) : Lt(s[i], v)}) < k
        /\ Cardinality({i \in 1..Len(s) : Le(s[i], v)}) >= k

\* the median of a non-empty sequence
StatedMedian(s) ==
    IF Len(s) % 2 = 1 THEN KthSmallest(s, (Len(s) + 1) \div 2)
    ELSE Div(Add(KthSmallest(s, Len(s) \div 2), KthSmallest(s, (Len(s) \div 2) + 1)),
             Rat(2, 1))

StatedMAD(s) ==
    StatedMedian([i \in 1..Len(s) |-> AbsR(Sub(s[i], StatedMedian(s)))])

\* max(0, 1 - |v - m| / (0.2 * MAD * 1.4826)), for MAD > 0
StatedMembership(v, m, mad) ==
    LET x == Sub(One, Div(AbsR(Sub(v, m)),
                          Mul(Mul(Rat(2, 10), mad), Rat(14826, 10000))))
    IN  IF Lt(x, Zero) THEN Zero ELSE x

\* C6: removeFuzzyOutliers with the default tolerance returns the input when
\* it has at most 2 values; otherwise the values equal to the median when
\* MAD = 0 and the values whose membership exceeds 0.5 when MAD > 0, in input
\* order; [0.5, 0.5, 0.5, 0.9] yields [0.5, 0.5, 0.5].
C6_OutliersByMedianDeviation ==
    pc = "removeFuzzyOutliers" =>
      /\ Len(values) <= 2 => result = values
      /\ Len(values) > 2 =>
           LET m == StatedMedian(values)
               mad == StatedMAD(values)
           IN  result = SelectSeq(values,
                          LAMBDA v : IF mad = Zero THEN v = m
                                     ELSE Gt(StatedMembership(v, m, mad), Rat(1, 2)))
      /\ values = <<Rat(1, 2), Rat(1, 2), Rat(1, 2), Rat(9, 10)>>
           => result = <<Rat(1, 2), Rat(1, 2), Rat(1, 2)>>

\* C6 witness: more than two values, MAD > 0, some value kept that is not the
\* median and some value removed
C6_Witness ==
    /\ pc = "removeFuzzyOutliers"
    /\ Len(values) > 2
    /\ StatedMAD(values) # Zero
    /\ \E i \in 1..Len(result) : result[i] # StatedMedian(values)
    /\ Len(result) < Len(values)

\* C6 witness of the example: the 0.9 outlier is removed from the proposals
C6_WitnessExample ==
    /\ pc = "removeFuzzyOutliers"
    /\ values = <<Rat(1, 2), Rat(1, 2), Rat(1, 2), Rat(9, 10)>>
    /\ result = <<Rat(1, 2), Rat(1, 2), Rat(1, 2)>>

(***************************************************************************)
(* Specification SpecDelphi: one call of applyDelphiTechnique.             *)
(***************************************************************************)
ProposalVals == {Zero, Rat(1, 2), Rat(9, 10)}

InitDelphi ==
    /\ pc = "ready"
    /\ attributes = NoObject
    /\ weights = NoObject
    /\ confidenceScores = NoObject
    /\ owaWeights = <<>>
    /\ alphaCutThreshold = Zero
    /\ aggregationMethod = "wsm"
    /\ strategyProfile = "balanced"
    /\ initialWeights \in SeqsUpTo(ObjectsOver(NumCriteria, ProposalVals), MaxProposals)
    /\ values = <<>>
    /\ candidates = <<>>
    /\ engine = "timsort"   \* the comparator a - b is consistent
    /\ args = NoArgs
    /\ db = NoDb
    /\ result = NoResult

CallApplyDelphiTechnique ==
    /\ pc = "ready"
    /\ pc' = "applyDelphiTechnique"
    /\ result' = applyDelphiTechnique(initialWeights)
    /\ UNCHANGED inputs

NextDelphi == CallApplyDelphiTechnique

SpecDelphi == InitDelphi /\ [][NextDelphi]_vars

\* the criteria named in any proposal
NamedCriteria(proposals) == UNION {KeysOf(proposals[i]) : i \in 1..Len(proposals)}

\* C5: the output of applyDelphiTechnique is a well-formed weight set: the
\* empty map for no proposals, a number in [0,1] for every criterion named in
\* any proposal, and the weights sum to 1 or are all 0.
C5_DelphiWeightsWellFormed ==
    pc = "applyDelphiTechnique" =>
      LET fw == result.finalWeights
      IN  /\ initialWeights = <<>> => fw = <<>>
          /\ KeysOf(fw) = NamedCriteria(initialWeights)
          /\ \A i \in 1..Len(fw) :
                IsNum(fw[i][2]) /\ Ge(fw[i][2], Zero) /\ Le(fw[i][2], One)
          /\ \/ SumSeq([i \in 1..Len(fw) |-> fw[i][2]]) = One
             \/ \A i \in 1..Len(fw) : fw[i][2] = Zero

\* C7: the values gathered for a criterion are the weights of every proposal
\* that names the criterion, a proposed weight of 0 included.
C7_GatherSkipsOnlyAbsent ==
    pc = "applyDelphiTechnique" =>
      \A c \in NamedCriteria(initialWeights) :
         Get(result.weightsByAttribute, c) =
           SelectSeq([i \in 1..Len(initialWeights) |-> Get(initialWeights[i], c)],
                     LAMBDA w : w # Undefined)

(***************************************************************************)
(* rankCandidates                                                          *)
(***************************************************************************)
TieWindow == Rat(5, 100)

\* candidates.map(candidate => ({...candidate, finalScore: candidate.finalScore || 0,
\*                               confidenceScore: candidate.confidence || 1.0}))
CopyCandidate(candidate) ==
    [id |-> candidate.id,
     confidence |-> candidate.confidence,
     finalScore |-> OrElse(candidate.finalScore, Zero),
     confidenceScore |-> OrElse(candidate.confidence, One)]

\* the comparator of rankedCandidates.sort
RankCompare(a, b) ==
    IF Lt(AbsR(Sub(b.finalScore, a.finalScore)), TieWindow)
    THEN Sub(b.confidenceScore, a.confidenceScore)
    ELSE Sub(b.finalScore, a.finalScore)

\* mutant of Annotate: percentile and rank counted from index + 1 and index
AnnotateOffByOne(sorted) ==
    [k \in 1..Len(sorted) |->
        [id |-> sorted[k].id,
         confidence |-> sorted[k].confidence,
         finalScore |-> sorted[k].finalScore,
         confidenceScore |-> sorted[k].confidenceScore,
         percentile |-> Mul(Rat(100, 1), Sub(One, Rat(k, Len(sorted)))),
         rank |-> k]]

\* mutant of Annotate: percentile spread over the whole scale, the last entry
\* at 0: 100 * (1 - index / (length - 1))
AnnotateToZero(sorted) ==
    [k \in 1..Len(sorted) |->
        [id |-> sorted[k].id,
         confidence |-> sorted[k].confidence,
         finalScore |-> sorted[k].finalScore,
         confidenceScore |-> sorted[k].confidenceScore,
         percentile |-> Mul(Rat(100, 1),
                            Sub(One, Div(Rat(k - 1, 1), Rat(Len(sorted) - 1, 1)))),
         rank |-> (k - 1) + 1]]

\* rankedCandidates.forEach((candidate, index) => ...), index = k - 1
Annotate(sorted) ==
    [k \in 1..Len(sorted) |->
        [id |-> sorted[k].id,
         confidence |-> sorted[k].confidence,
         finalScore |-> sorted[k].finalScore,
         confidenceScore |-> sorted[k].confidenceScore,
         percentile |-> Mul(Rat(100, 1), Sub(One, Rat(k - 1, Len(sorted)))),
         rank |-> (k - 1) + 1]]

\* returns the ranked list, and the argument array as the call leaves it
rankCandidates(cands) ==
    LET copies == [i \in 1..Len(cands) |-> CopyCandidate(cands[i])]
        order == [i \in 1..Len(copies) |-> [j \in 1..Len(copies) |->
                    Sign(RankCompare(copies[i], copies[j]))]]
        perm == SortPerm(Len(copies), order, engine)
        sorted == [k \in 1..Len(copies) |-> copies[perm[k]]]
    IN  [rankedCandidates |-> Annotate(sorted), candidates |-> cands]

(***************************************************************************)
(* Specification SpecRank: one call of rankCandidates.  A candidate is     *)
(* identified by its position in the input list.                           *)
(***************************************************************************)
RankScores == {Rat(83, 100), Rat(85, 100), Rat(89, 100), Undefined}
RankConfidences == {Zero, Rat(90, 100), Rat(95, 100)}

\* the list of the n candidates with the scores and confidences f[i]
CandidateList(n, f) ==
    [i \in 1..n |-> [id |-> i, finalScore |-> f[i][1], confidence |-> f[i][2]]]

InitRank ==
    /\ pc = "ready"
    /\ attributes = NoObject
    /\ weights = NoObject
    /\ confidenceScores = NoObject
    /\ owaWeights = <<>>
    /\ alphaCutThreshold = Zero
    /\ aggregationMethod = "wsm"
    /\ strategyProfile = "balanced"
    /\ initialWeights = <<>>
    /\ values = <<>>
    /\ \E n \in 0..MaxCandidates :
          \E f \in [1..n -> RankScores \X RankConfidences] :
             candidates = CandidateList(n, f)
    /\ engine \in Engines
    /\ args = NoArgs
    /\ db = NoDb
    /\ result = NoResult

CallRankCandidates ==
    /\ pc = "ready"
    /\ pc' = "rankCandidates"
    /\ result' = rankCandidates(candidates).rankedCandidates
    /\ candidates' = rankCandidates(candidates).candidates
    /\ UNCHANGED <<attributes, weights, confidenceScores, owaWeights,
                   alphaCutThreshold, aggregationMethod, strategyProfile,
                   initialWeights, values, engine, args, db>>

NextRank == CallRankCandidates

SpecRank == InitRank /\ [][NextRank]_vars

\* C8: of two candidates with supplied scores and confidences in [0,1] whose
\* scores differ by less than 0.05, the one with the higher confidence is
\* placed first.
C8_CloseScoresOrderedByConfidence ==
    (/\ pc = "rankCandidates"
     /\ Len(candidates) = 2
     /\ \A i \in 1..2 : candidates[i].finalScore # Undefined)
    => \A i, j \in 1..2 :
          (/\ Lt(AbsR(Sub(candidates[i].finalScore, candidates[j].finalScore)),
                 Rat(5, 100))
           /\ Gt(candidates[i].confidence, candidates[j].confidence))
          => result[1].id = i

\* C9: in the output any two candidates whose scores differ by at least 0.05
\* are in descending score order: the higher-scored one has the smaller rank.
C9_DistantScoresDescending ==
    pc = "rankCandidates" =>
      \A i, j \in 1..Len(result) :
         Ge(Sub(result[i].finalScore, result[j].finalScore), Rat(5, 100))
           => result[i].rank < result[j].rank

\* the ranked list is a permutation of the input with rank i and percentile
\* 100 * (1 - (i - 1) / n) at 1-based position i
RankedIsAnnotatedPermutation ==
    pc = "rankCandidates" =>
      LET n == Len(candidates)
      IN  /\ Len(result) = n
          /\ \A c \in 1..n : Cardinality({i \in 1..n : result[i].id = c}) = 1
          /\ \A i \in 1..n :
                /\ result[i].id \in 1..n
                /\ result[i].confidence = candidates[result[i].id].confidence
                /\ result[i].finalScore =
                     (IF candidates[result[i].id].finalScore = Undefined
                      THEN Zero ELSE candidates[result[i].id].finalScore)
                /\ result[i].rank = i
                /\ result[i].percentile = Rat(100 * (n - (i - 1)), n)
                /\ Gt(result[i].percentile, Zero)
                /\ Le(result[i].percentile, Rat(100, 1))
          /\ {result[i].rank : i \in 1..n} = 1..n
          /\ \A i \in 1..n :
                /\ candidates[i].id = i
                /\ DOMAIN candidates[i] = {"id", "finalScore", "confidence"}

\* C10: rankCandidates returns a permutation of its input, the input list left
\* unmodified, with rank = i + 1 and percentile = 100 * (1 - i / n) at 0-based
\* position i, so ranks are 1..n and every percentile lies in (0, 100].
C10_RanksAndPercentiles ==
    /\ []RankedIsAnnotatedPermutation
    /\ [][candidates' = candidates]_vars

\* C10 witness: three candidates ranked in an order other than the input's
C10_Witness ==
    /\ pc = "rankCandidates"
    /\ Len(result) = 3
    /\ result[1].id = 3
    /\ result[3].percentile = Rat(100, 3)
    /\ result[3].rank = 3

\* C11 (as stated): for any two-candidate input the first-ranked entry has
\* percentile 100 and the second-ranked entry has percentile 0.
C11_TwoCandidatesPercentile100And0 ==
    (pc = "rankCandidates" /\ Len(candidates) = 2)
    => /\ result[1].percentile = Rat(100, 1)
       /\ result[2].percentile = Zero

\* C11 (amended): for any two-candidate input the first-ranked entry has
\* percentile 100 and the second-ranked entry has percentile 50, which is
\* 100 * (1 - 1/2).
C11_TwoCandidatesPercentile100And50 ==
    (pc = "rankCandidates" /\ Len(candidates) = 2)
    => /\ result[1].percentile = Rat(100, 1)
       /\ result[2].percentile = Rat(50, 1)

\* C11 witness: the input [{score 0.85, confidence 0.9}, {score 0.83,
\* confidence 0.95}]; the second candidate is ranked first
C11_Witness ==
    /\ pc = "rankCandidates"
    /\ candidates = CandidateList(2, <<<<Rat(85, 100), Rat(90, 100)>>,
                                       <<Rat(83, 100), Rat(95, 100)>>>>)
    /\ result[1].id = 2
    /\ result[2].id = 1

(***************************************************************************)
(* Values of the other JavaScript types.  null is the value Null; a string *)
(* is the sequence of its characters, an array the sequence of its items   *)
(* and a boolean TRUE or FALSE, each tagged with its type.                 *)
(***************************************************************************)
Null == <<"null">>

StringOf(chars) == <<"typeof", "string", chars>>
BooleanOf(b) == <<"typeof", "boolean", b>>
ArrayOf(items) == <<"typeof", "array", items>>

\* typeof x === 'number' (NaN is a number)
IsNumber(x) == Len(x) = 2 \/ x = NaN \/ (Len(x) = 3 /\ x[1] = "exp")
\* typeof x === 'string'
IsString(x) == Len(x) = 3 /\ x[1] = "typeof" /\ x[2] = "string"
\* typeof x === 'boolean'
IsBoolean(x) == Len(x) = 3 /\ x[1] = "typeof" /\ x[2] = "boolean"
\* Array.isArray(x)
IsArray(x) == Len(x) = 3 /\ x[1] = "typeof" /\ x[2] = "array"

\* the characters strings are made of, with their UTF-16 code units
Chars == {" ", "1", "5", "A", "B", "a", "b", "c"}

CharCode(ch) ==
    CASE ch = " " -> 32
      [] ch = "1" -> 49
      [] ch = "5" -> 53
      [] ch = "A" -> 65
      [] ch = "B" -> 66
      [] ch = "a" -> 97
      [] ch = "b" -> 98
      [] ch = "c" -> 99

IsDigit(ch) == CharCode(ch) >= 48 /\ CharCode(ch) <= 57

\* String.prototype.trim
RECURSIVE TrimStart(_)
TrimStart(chars) ==
    IF chars # <<>> /\ Head(chars) = " " THEN TrimStart(Tail(chars)) ELSE chars

RECURSIVE TrimEnd(_)
TrimEnd(chars) ==
    IF chars # <<>> /\ chars[Len(chars)] = " "
    THEN TrimEnd(SubSeq(chars, 1, Len(chars) - 1)) ELSE chars

Trim(chars) == TrimEnd(TrimStart(chars))

\* the value of a string of decimal digits
RECURSIVE DigitsValue(_)
DigitsValue(chars) ==
    IF chars = <<>> THEN 0
    ELSE 10 * DigitsValue(SubSeq(chars, 1, Len(chars) - 1))
           + (CharCode(chars[Len(chars)]) - 48)

\* ToNumber of a string over Chars: white space is trimmed, the empty string
\* is 0, a string of digits its value, any other string NaN
StringToNumber(chars) ==
    LET t == Trim(chars)
    IN  IF t = <<>> THEN Zero
        ELSE IF \A i \in 1..Len(t) : IsDigit(t[i]) THEN Rat(DigitsValue(t), 1)
        ELSE NaN

\* ToNumber of a primitive value
ToNumber(x) ==
    IF x = Undefined THEN NaN
    ELSE IF x = Null THEN Zero
    ELSE IF IsBoolean(x) THEN (IF x[3] THEN One ELSE Zero)
    ELSE IF IsString(x) THEN StringToNumber(x[3])
    ELSE x

\* s < t for two strings: code units compared left to right
RECURSIVE StringLt(_, _)
StringLt(s, t) ==
    IF t = <<>> THEN FALSE
    ELSE IF s = <<>> THEN TRUE
    ELSE IF Head(s) = Head(t) THEN StringLt(Tail(s), Tail(t))
    ELSE CharCode(Head(s)) < CharCode(Head(t))

\* x < y and x >= y for primitive values: two strings are compared as
\* strings, any other pair as numbers (false when either is NaN)
JsLt(x, y) ==
    IF IsString(x) /\ IsString(y) THEN StringLt(x[3], y[3])
    ELSE Lt(ToNumber(x), ToNumber(y))

JsGe(x, y) ==
    IF IsString(x) /\ IsString(y) THEN ~StringLt(x[3], y[3])
    ELSE Ge(ToNumber(x), ToNumber(y))

(***************************************************************************)
(* applyHardCriteriaFilter.  candidate.attributes is a Map, modelled as    *)
(* the sequence of its entries; attribute values and thresholds are        *)
(* primitive values (numbers, strings, booleans, null).                    *)
(***************************************************************************)
DefaultThresholdTolerance == Rat(1, 10)

\* the callback of candidates.filter: the for-loop over
\* Object.entries(criteria), from entry i on
RECURSIVE PassesCriteria(_, _, _, _)
PassesCriteria(candidate, criteria, thresholdTolerance, i) ==
    IF i > Len(criteria) THEN TRUE
    ELSE LET key == criteria[i][1]
             threshold == criteria[i][2]
             candidateValue == Get(candidate.attributes, key)
         IN  IF candidateValue = Undefined THEN FALSE
             ELSE IF IsNumber(candidateValue) /\ IsNumber(threshold)
             THEN LET fuzzyThreshold ==
                        Mul(threshold, Sub(One, thresholdTolerance))
                  IN  IF Lt(candidateValue, fuzzyThreshold) THEN FALSE
                      ELSE PassesCriteria(candidate, criteria,
                                          thresholdTolerance, i + 1)
             ELSE IF JsLt(candidateValue, threshold) THEN FALSE
             ELSE PassesCriteria(candidate, criteria, thresholdTolerance, i + 1)

applyHardCriteriaFilter(cands, criteria, thresholdTolerance) ==
    SelectSeq(cands, LAMBDA candidate :
                        PassesCriteria(candidate, criteria, thresholdTolerance, 1))

(***************************************************************************)
(* Specification SpecFilter: one call of applyHardCriteriaFilter on up to  *)
(* MaxFiltered candidates and criteria over NumCriteria attribute names.   *)
(***************************************************************************)
MaxFiltered == 2

AttributeVals == {Rat(44, 10), Rat(46, 10), Rat(-19, 2),
                  StringOf(<<"a">>), StringOf(<<"b">>)}
ThresholdCriteria == {Rat(5, 1), Rat(-10, 1), StringOf(<<"b">>)}
ToleranceVals == {Zero, DefaultThresholdTolerance}

\* the list of the n candidates with the attribute maps f[i]
FilterCandidates(n, f) == [i \in 1..n |-> [id |-> i, attributes |-> f[i]]]

InitFilter ==
    /\ pc = "ready"
    /\ attributes = NoObject
    /\ weights = NoObject
    /\ confidenceScores = NoObject
    /\ owaWeights = <<>>
    /\ alphaCutThreshold = Zero
    /\ aggregationMethod = "wsm"
    /\ strategyProfile = "balanced"
    /\ initialWeights = <<>>
    /\ values = <<>>
    /\ \E n \in 0..MaxFiltered :
          \E f \in [1..n -> ObjectsOver(NumCriteria, AttributeVals)] :
             candidates = FilterCandidates(n, f)
    /\ engine = "none"
    /\ \E criteria \in ObjectsOver(NumCriteria, ThresholdCriteria) :
          \E thresholdTolerance \in ToleranceVals :
             args = [criteria |-> criteria,
                     thresholdTolerance |-> thresholdTolerance]
    /\ db = NoDb
    /\ result = NoResult

CallApplyHardCriteriaFilter ==
    /\ pc = "ready"
    /\ pc' = "applyHardCriteriaFilter"
    /\ result' = applyHardCriteriaFilter(candidates, args.criteria,
                                         args.thresholdTolerance)
    /\ UNCHANGED inputs

NextFilter == CallApplyHardCriteriaFilter

SpecFilter == InitFilter /\ [][NextFilter]_vars

\* the condition the contract states for one (attribute, threshold) pair
StatedPass(candidateValue, threshold, thresholdTolerance) ==
    /\ candidateValue # Undefined
    /\ IF IsNumber(candidateValue) /\ IsNumber(threshold)
       THEN Ge(candidateValue, Mul(threshold, Sub(One, thresholdTolerance)))
       ELSE JsGe(candidateValue, threshold)

StatedKeep(candidate, criteria, thresholdTolerance) ==
    \A i \in 1..Len(criteria) :
       StatedPass(Get(candidate.attributes, criteria[i][1]), criteria[i][2],
                  thresholdTolerance)

\* C12: applyHardCriteriaFilter keeps a candidate iff for every (attribute,
\* threshold) pair the attribute is present and either both are numbers and
\* value >= threshold * (1 - tolerance), or otherwise value >= threshold; the
\* kept candidates appear in their input order.
C12_FilterKeepsExactlyPassing ==
    pc = "applyHardCriteriaFilter" =>
      result = SelectSeq(candidates, LAMBDA candidate :
                  StatedKeep(candidate, args.criteria, args.thresholdTolerance))

\* C13: the tolerance never raises the bar: every candidate that passes the
\* filter with tolerance 0 on numeric thresholds also passes it with the
\* tolerance of the call.
C13_ToleranceNeverRaisesTheBar ==
    (/\ pc = "applyHardCriteriaFilter"
     /\ \A i \in 1..Len(args.criteria) : IsNumber(args.criteria[i][2]))
    => \A k \in 1..Len(candidates) :
          PassesCriteria(candidates[k], args.criteria, Zero, 1)
            => \E j \in 1..Len(result) : result[j].id = k

(***************************************************************************)
(* Membership functions.                                                   *)
(***************************************************************************)
\* mutant of triangularMF: the rising side is divided by the whole base
TriangularMFWideBase(x, a, b, c) ==
    IF Le(x, a) THEN Zero
    ELSE IF Gt(x, a) /\ Le(x, b) THEN Div(Sub(x, a), Sub(c, a))
    ELSE IF Gt(x, b) /\ Le(x, c) THEN Div(Sub(c, x), Sub(c, b))
    ELSE Zero

triangularMF(x, a, b, c) ==
    IF Le(x, a) THEN Zero
    ELSE IF Gt(x, a) /\ Le(x, b) THEN Div(Sub(x, a), Sub(b, a))
    ELSE IF Gt(x, b) /\ Le(x, c) THEN Div(Sub(c, x), Sub(c, b))
    ELSE Zero

trapezoidalMF(x, a, b, c, d) ==
    IF Le(x, a) THEN Zero
    ELSE IF Gt(x, a) /\ Le(x, b) THEN Div(Sub(x, a), Sub(b, a))
    ELSE IF Gt(x, b) /\ Le(x, c) THEN One
    ELSE IF Gt(x, c) /\ Le(x, d) THEN Div(Sub(d, x), Sub(d, c))
    ELSE Zero

\* Math.exp(q) for a rational q # 0: the number e^q, kept as its exponent
ExpOf(q) == <<"exp", q[1], q[2]>>

\* Math.exp(-0.5 * Math.pow((x - mean) / sigma, 2)).  With sigma = 0 the
\* quotient is 0/0 = NaN when x = mean and +-Infinity otherwise, whose square
\* is Infinity and Math.exp(-Infinity) is 0.
gaussianMF(x, mean, sigma) ==
    IF x = NaN \/ mean = NaN \/ sigma = NaN THEN NaN
    ELSE IF sigma = Zero THEN (IF x = mean THEN NaN ELSE Zero)
    ELSE LET z == Div(Sub(x, mean), sigma)
             q == Mul(Rat(-1, 2), Mul(z, z))
         IN  IF q = Zero THEN One ELSE ExpOf(q)

\* r is a number in [0, 1]
InUnitInterval(r) ==
    \/ Len(r) = 2 /\ Ge(r, Zero) /\ Le(r, One)
    \/ Len(r) = 3 /\ r[1] = "exp" /\ r[2] <= 0

(***************************************************************************)
(* calculateStringSimilarity, on the character sequences of two strings.   *)
(***************************************************************************)
\* String.prototype.toLowerCase
ToLowerCase(chars) ==
    [i \in 1..Len(chars) |->
        CASE chars[i] = "A" -> "a"
          [] chars[i] = "B" -> "b"
          [] OTHER -> chars[i]]

Min3(x, y, z) == IF x <= y /\ x <= z THEN x ELSE IF y <= z THEN y ELSE z

\* matrix[i][j] of the Levenshtein distance matrix
RECURSIVE LevenshteinCell(_, _, _, _)
LevenshteinCell(s1, s2, i, j) ==
    IF j = 0 THEN i
    ELSE IF i = 0 THEN j
    ELSE LET cost == IF s1[i] = s2[j] THEN 0 ELSE 1
         IN  Min3(LevenshteinCell(s1, s2, i - 1, j) + 1,
                  LevenshteinCell(s1, s2, i, j - 1) + 1,
                  LevenshteinCell(s1, s2, i - 1, j - 1) + cost)

\* mutant of calculateStringSimilarity: the strings are not lower-cased
CalculateStringSimilarityCaseSensitive(str1, str2) ==
    LET s1 == Trim(str1)
        s2 == Trim(str2)
        maxLength == IF Len(s1) > Len(s2) THEN Len(s1) ELSE Len(s2)
    IN  IF Len(s1) = 0 /\ Len(s2) = 0 THEN One
        ELSE IF Len(s1) = 0 \/ Len(s2) = 0 THEN Zero
        ELSE IF s1 = s2 THEN One
        ELSE Sub(One, Rat(LevenshteinCell(s1, s2, Len(s1), Len(s2)), maxLength))

calculateStringSimilarity(str1, str2) ==
    LET s1 == Trim(ToLowerCase(str1))
        s2 == Trim(ToLowerCase(str2))
        maxLength == IF Len(s1) > Len(s2) THEN Len(s1) ELSE Len(s2)
    IN  IF Len(s1) = 0 /\ Len(s2) = 0 THEN One
        ELSE IF Len(s1) = 0 \/ Len(s2) = 0 THEN Zero
        ELSE IF s1 = s2 THEN One
        ELSE Sub(One, Rat(LevenshteinCell(s1, s2, Len(s1), Len(s2)), maxLength))

(***************************************************************************)
(* calculateArraySimilarity, on the item sequences of two arrays whose     *)
(* items are primitive values.                                             *)
(***************************************************************************)
DefaultOptions == [caseSensitive |-> FALSE, partial |-> TRUE, threshold |-> Rat(7, 10)]
MatchMargin == Rat(1, 100)
QualityShare == Rat(4, 10)
CoverageShare == Rat(6, 10)

\* similarityMatrix[i][j]
ItemSimilarity(s, t, caseSensitive) ==
    IF IsString(s) /\ IsString(t)
    THEN calculateStringSimilarity(
           IF caseSensitive THEN s[3] ELSE ToLowerCase(s[3]),
           IF caseSensitive THEN t[3] ELSE ToLowerCase(t[3]))
    ELSE IF IsNumber(s) /\ IsNumber(t)
    THEN LET maxDiff == MaxR(AbsR(s), AbsR(t))
             diff == AbsR(Sub(s, t))
         IN  IF maxDiff = Zero THEN One
             ELSE MaxR(Zero, Sub(One, Div(diff, maxDiff)))
    ELSE IF s = t THEN One
    ELSE Zero

RemoveAt(row, idx) == [k \in 1..(Len(row) - 1) |-> IF k < idx THEN row[k] ELSE row[k + 1]]

\* the inner for-loop over primaryArray[i], from column j on; bestMatchIdx
\* is 1-based and 0 stands for -1
RECURSIVE BestMatch(_, _, _, _)
BestMatch(row, j, bestMatchIdx, bestMatchScore) ==
    IF j > Len(row) THEN [bestMatchIdx |-> bestMatchIdx, bestMatchScore |-> bestMatchScore]
    ELSE IF Gt(row[j], bestMatchScore) THEN BestMatch(row, j + 1, j, row[j])
    ELSE BestMatch(row, j + 1, bestMatchIdx, bestMatchScore)

\* mutant of GreedyLoop: the matched column is removed at bestMatchIdx + 1
RECURSIVE GreedyLoopOffByOne(_, _, _, _)
GreedyLoopOffByOne(primaryArray, i, threshold, acc) ==
    IF i > Len(primaryArray) THEN acc
    ELSE IF Len(primaryArray[i]) = 0
    THEN GreedyLoopOffByOne(primaryArray, i + 1, threshold, acc)
    ELSE LET best == BestMatch(primaryArray[i], 1, 0, Sub(threshold, MatchMargin))
         IN  IF best.bestMatchIdx # 0
             THEN GreedyLoopOffByOne(
                    [k \in 1..Len(primaryArray) |->
                        IF Len(primaryArray[k]) > best.bestMatchIdx
                        THEN RemoveAt(primaryArray[k], best.bestMatchIdx + 1)
                        ELSE primaryArray[k]],
                    i + 1, threshold,
                    [totalSimilarity |-> Add(acc.totalSimilarity, best.bestMatchScore),
                     matchCount |-> acc.matchCount + 1])
             ELSE GreedyLoopOffByOne(primaryArray, i + 1, threshold, acc)

\* the outer for-loop over primaryArray, from row i on
RECURSIVE GreedyLoop(_, _, _, _)
GreedyLoop(primaryArray, i, threshold, acc) ==
    IF i > Len(primaryArray) THEN acc
    ELSE IF Len(primaryArray[i]) = 0
    THEN GreedyLoop(primaryArray, i + 1, threshold, acc)
    ELSE LET best == BestMatch(primaryArray[i], 1, 0, Sub(threshold, MatchMargin))
         IN  IF best.bestMatchIdx # 0
             THEN GreedyLoop(
                    [k \in 1..Len(primaryArray) |->
                        IF Len(primaryArray[k]) > best.bestMatchIdx - 1
                        THEN RemoveAt(primaryArray[k], best.bestMatchIdx)
                        ELSE primaryArray[k]],
                    i + 1, threshold,
                    [totalSimilarity |-> Add(acc.totalSimilarity, best.bestMatchScore),
                     matchCount |-> acc.matchCount + 1])
             ELSE GreedyLoop(primaryArray, i + 1, threshold, acc)

calculateArraySimilarity(sourceArray, targetArray, options) ==
    IF ~IsArray(sourceArray) \/ ~IsArray(targetArray) THEN Zero
    ELSE LET source == sourceArray[3]
             target == targetArray[3]
         IN  IF Len(source) = 0 /\ Len(target) = 0 THEN One
             ELSE IF Len(source) = 0 \/ Len(target) = 0 THEN Zero
             ELSE LET similarityMatrix ==
                        [i \in 1..Len(source) |-> [j \in 1..Len(target) |->
                            ItemSimilarity(source[i], target[j], options.caseSensitive)]]
                      acc == GreedyLoop(similarityMatrix, 1, options.threshold,
                                        [totalSimilarity |-> Zero, matchCount |-> 0])
                      maxPossibleMatches == IF Len(source) < Len(target)
                                            THEN Len(source) ELSE Len(target)
                      matchQuality == IF acc.matchCount > 0
                                      THEN Div(acc.totalSimilarity, Rat(acc.matchCount, 1))
                                      ELSE Zero
                      coverage == Rat(acc.matchCount, maxPossibleMatches)
                  IN  Add(Mul(matchQuality, QualityShare), Mul(coverage, CoverageShare))

(***************************************************************************)
(* calculateFuzzyScore                                                     *)
(***************************************************************************)
DefaultFuzzyFactor == Rat(2, 10)
DefaultMembershipType == "simple"

\* mutant of FuzzyNumberScore: the trapezoid's plateau as wide as its base
FuzzyNumberScoreWidePlateau(value, targetValue, fuzzyFactor, membershipType) ==
    CASE membershipType = "triangular" ->
           triangularMF(value, Mul(targetValue, Sub(One, fuzzyFactor)), targetValue,
                        Mul(targetValue, Add(One, fuzzyFactor)))
      [] membershipType = "trapezoidal" ->
           trapezoidalMF(value, Mul(targetValue, Sub(One, fuzzyFactor)),
                         Mul(targetValue, Sub(One, fuzzyFactor)),
                         Mul(targetValue, Add(One, fuzzyFactor)),
                         Mul(targetValue, Add(One, fuzzyFactor)))
      [] membershipType = "gaussian" ->
           gaussianMF(value, targetValue, Mul(targetValue, fuzzyFactor))
      [] OTHER ->
           LET maxDiff == MaxR(Mul(targetValue, fuzzyFactor), One)
               actualDiff == AbsR(Sub(value, targetValue))
           IN  MaxR(Zero, Sub(One, Div(actualDiff, maxDiff)))

\* the switch (membershipType) of the number/number branch
FuzzyNumberScore(value, targetValue, fuzzyFactor, membershipType) ==
    CASE membershipType = "triangular" ->
           LET a == Mul(targetValue, Sub(One, fuzzyFactor))
               b == targetValue
               c == Mul(targetValue, Add(One, fuzzyFactor))
           IN  triangularMF(value, a, b, c)
      [] membershipType = "trapezoidal" ->
           LET a2 == Mul(targetValue, Sub(One, fuzzyFactor))
               b2 == Mul(targetValue, Sub(One, Div(fuzzyFactor, Rat(2, 1))))
               c2 == Mul(targetValue, Add(One, Div(fuzzyFactor, Rat(2, 1))))
               d2 == Mul(targetValue, Add(One, fuzzyFactor))
           IN  trapezoidalMF(value, a2, b2, c2, d2)
      [] membershipType = "gaussian" ->
           LET mean == targetValue
               sigma == Mul(targetValue, fuzzyFactor)
           IN  gaussianMF(value, mean, sigma)
      [] OTHER ->
           LET maxDiff == MaxR(Mul(targetValue, fuzzyFactor), One)
               actualDiff == AbsR(Sub(value, targetValue))
           IN  MaxR(Zero, Sub(One, Div(actualDiff, maxDiff)))

\* mutant of calculateFuzzyScore: the fallback compares loosely (==), so
\* that null matches undefined and a boolean matches its number
CalculateFuzzyScoreLoose(value, targetValue, fuzzyFactor, membershipType) ==
    IF value = Undefined \/ value = Null THEN Zero
    ELSE IF IsNumber(value) /\ IsNumber(targetValue)
    THEN FuzzyNumberScore(value, targetValue, fuzzyFactor, membershipType)
    ELSE IF IsString(value) /\ IsString(targetValue)
    THEN calculateStringSimilarity(value[3], targetValue[3])
    ELSE IF IsArray(value) /\ IsArray(targetValue)
    THEN calculateArraySimilarity(value, targetValue, DefaultOptions)
    ELSE IF IsBoolean(value) /\ IsBoolean(targetValue)
    THEN (IF value = targetValue THEN One ELSE Zero)
    ELSE IF ~IsArray(value) /\ ~IsArray(targetValue)
            /\ ToNumber(value) # NaN /\ ToNumber(value) = ToNumber(targetValue)
    THEN One ELSE Zero

calculateFuzzyScore(value, targetValue, fuzzyFactor, membershipType) ==
    IF value = Undefined \/ value = Null THEN Zero
    ELSE IF IsNumber(value) /\ IsNumber(targetValue)
    THEN FuzzyNumberScore(value, targetValue, fuzzyFactor, membershipType)
    ELSE IF IsString(value) /\ IsString(targetValue)
    THEN calculateStringSimilarity(value[3], targetValue[3])
    ELSE IF IsArray(value) /\ IsArray(targetValue)
    THEN calculateArraySimilarity(value, targetValue, DefaultOptions)
    ELSE IF IsBoolean(value) /\ IsBoolean(targetValue)
    THEN (IF value = targetValue THEN One ELSE Zero)
    ELSE IF value = targetValue THEN One ELSE Zero

(***************************************************************************)
(* Specification SpecFuzzy: one call of a membership function on a grid of *)
(* halves from -1/2 to MaxGrid/2, or one call of calculateFuzzyScore on    *)
(* values of every type.                                                   *)
(***************************************************************************)
MaxGrid == 4

GridVals == {Rat(i, 2) : i \in -1..MaxGrid}

NumberVals == {Zero, Rat(4, 1), Rat(5, 1), Rat(6, 1), Rat(-5, 1)}
StringVals == {StringOf(<<>>), StringOf(<<"a">>), StringOf(<<"a", "b">>), StringOf(<<"A", "b", " ">>), StringOf(<<"5">>)}
ArrayVals == {ArrayOf(<<>>), ArrayOf(<<StringOf(<<"a">>)>>), ArrayOf(<<StringOf(<<"a", "b">>), Rat(5, 1)>>), ArrayOf(<<Rat(5, 1), BooleanOf(TRUE)>>)}
FuzzyVals == NumberVals \cup StringVals \cup ArrayVals \cup {BooleanOf(TRUE), BooleanOf(FALSE), Null, Undefined}
FuzzyFactors == {Zero, DefaultFuzzyFactor, Rat(3, 10), One}
MembershipTypes == {DefaultMembershipType, "triangular", "trapezoidal", "gaussian", "sigmoid"}

InitFuzzy ==
    /\ pc = "ready"
    /\ attributes = NoObject
    /\ weights = NoObject
    /\ confidenceScores = NoObject
    /\ owaWeights = <<>>
    /\ alphaCutThreshold = Zero
    /\ aggregationMethod = "wsm"
    /\ strategyProfile = "balanced"
    /\ initialWeights = <<>>
    /\ values = <<>>
    /\ candidates = <<>>
    /\ engine = "none"
    /\ \/ \E x, a, b, c \in GridVals :
             args = [fn |-> "triangularMF", x |-> x, a |-> a, b |-> b, c |-> c]
       \/ \E x, a, b, c, d \in GridVals :
             args = [fn |-> "trapezoidalMF", x |-> x, a |-> a, b |-> b, c |-> c, d |-> d]
       \/ \E x, mean, sigma \in GridVals :
             args = [fn |-> "gaussianMF", x |-> x, mean |-> mean, sigma |-> sigma]
       \/ \E value, targetValue \in FuzzyVals :
             \E fuzzyFactor \in FuzzyFactors : \E membershipType \in MembershipTypes :
                args = [fn |-> "calculateFuzzyScore", value |-> value,
                        targetValue |-> targetValue, fuzzyFactor |-> fuzzyFactor,
                        membershipType |-> membershipType]
    /\ db = NoDb
    /\ result = NoResult

CallTriangularMF ==
    /\ pc = "ready"
    /\ args.fn = "triangularMF"
    /\ pc' = "triangularMF"
    /\ result' = triangularMF(args.x, args.a, args.b, args.c)
    /\ UNCHANGED inputs

CallTrapezoidalMF ==
    /\ pc = "ready"
    /\ args.fn = "trapezoidalMF"
    /\ pc' = "trapezoidalMF"
    /\ result' = trapezoidalMF(args.x, args.a, args.b, args.c, args.d)
    /\ UNCHANGED inputs

CallGaussianMF ==
    /\ pc = "ready"
    /\ args.fn = "gaussianMF"
    /\ pc' = "gaussianMF"
    /\ result' = gaussianMF(args.x, args.mean, args.sigma)
    /\ UNCHANGED inputs

CallCalculateFuzzyScore ==
    /\ pc = "ready"
    /\ args.fn = "calculateFuzzyScore"
    /\ pc' = "calculateFuzzyScore"
    /\ result' = calculateFuzzyScore(args.value, args.targetValue,
                                     args.fuzzyFactor, args.membershipType)
    /\ UNCHANGED inputs

NextFuzzy ==
    \/ CallTriangularMF
    \/ CallTrapezoidalMF
    \/ CallGaussianMF
    \/ CallCalculateFuzzyScore

SpecFuzzy == InitFuzzy /\ [][NextFuzzy]_vars

\* the completion of a call that raises an error; no statement of the
\* membership functions or of calculateFuzzyScore raises one
Thrown == <<"throw">>

\* C14: calculateFuzzyScore returns a number in [0,1] for every value and
\* target of type number, string, boolean or array, every fuzzyFactor in [0,1]
\* and every membership kind in {simple, triangular, trapezoidal, gaussian}.
C14_FuzzyScoreInUnitInterval ==
    (/\ pc = "calculateFuzzyScore"
     /\ args.value \notin {Null, Undefined}
     /\ args.targetValue \notin {Null, Undefined}
     /\ args.membershipType \in {"simple", "triangular", "trapezoidal", "gaussian"})
    => InUnitInterval(result)

\* value === targetValue for two primitive values or arrays of the model
\* (two distinct arrays are never strictly equal)
StrictlyEqual(value, targetValue) ==
    value = targetValue /\ ~IsArray(value) /\ value # NaN

\* C15: calculateFuzzyScore returns 0 when the value is null or undefined;
\* string x string gives the string similarity, array x array the array
\* similarity with default options, boolean x boolean 1 if equal else 0, and
\* every other combination of types 1 if the two are strictly equal and 0
\* otherwise; no combination raises an error.
C15_TypeDispatch ==
    pc = "calculateFuzzyScore" =>
      LET value == args.value
          targetValue == args.targetValue
      IN  /\ result # Thrown
          /\ IF value \in {Null, Undefined} THEN result = Zero
             ELSE IF IsNumber(value) /\ IsNumber(targetValue) THEN TRUE
             ELSE IF IsString(value) /\ IsString(targetValue)
             THEN result = calculateStringSimilarity(value[3], targetValue[3])
             ELSE IF IsArray(value) /\ IsArray(targetValue)
             THEN result = calculateArraySimilarity(value, targetValue,
                             [caseSensitive |-> FALSE, partial |-> TRUE,
                              threshold |-> Rat(7, 10)])
             ELSE IF IsBoolean(value) /\ IsBoolean(targetValue)
             THEN result = (IF value[3] = targetValue[3] THEN One ELSE Zero)
             ELSE result = (IF StrictlyEqual(value, targetValue) THEN One ELSE Zero)

\* C15 witness: a string value against a number target that is loosely but
\* not strictly equal to it scores 0
C15_Witness ==
    /\ pc = "calculateFuzzyScore"
    /\ args.value = StringOf(<<"5">>)
    /\ args.targetValue = Rat(5, 1)
    /\ result = Zero

\* C15 witness: string x string dispatches to the string similarity
C15_WitnessStrings ==
    /\ pc = "calculateFuzzyScore"
    /\ args.value = StringOf(<<"A", "b", " ">>)
    /\ args.targetValue = StringOf(<<"a">>)
    /\ result = Rat(1, 2)

\* C16: for number x number inputs calculateFuzzyScore equals the named
\* membership function with parameters derived from the target: triangular
\* with a = t(1-f), b = t, c = t(1+f); trapezoidal with a = t(1-f),
\* b = t(1-f/2), c = t(1+f/2), d = t(1+f); gaussian with mean = t and
\* sigma = t f; simple and any unknown kind max(0, 1 - |x-t| / max(t f, 1)).
\* For value 6, target 5, f = 0.3, triangular, the score is 1/3.
C16_NumberDispatch ==
    (/\ pc = "calculateFuzzyScore"
     /\ IsNumber(args.value)
     /\ IsNumber(args.targetValue))
    => LET x == args.value
           t == args.targetValue
           f == args.fuzzyFactor
           half == Div(f, Rat(2, 1))
           width == MaxR(Mul(t, f), One)
       IN  /\ args.membershipType = "triangular" =>
                result = triangularMF(x, Mul(t, Sub(One, f)), t, Mul(t, Add(One, f)))
           /\ args.membershipType = "trapezoidal" =>
                result = trapezoidalMF(x, Mul(t, Sub(One, f)), Mul(t, Sub(One, half)),
                                       Mul(t, Add(One, half)), Mul(t, Add(One, f)))
           /\ args.membershipType = "gaussian" =>
                result = gaussianMF(x, t, Mul(t, f))
           /\ args.membershipType \notin {"triangular", "trapezoidal", "gaussian"} =>
                result = MaxR(Zero, Sub(One, Div(AbsR(Sub(x, t)), width)))
           /\ (/\ x = Rat(6, 1)
               /\ t = Rat(5, 1)
               /\ f = Rat(3, 10)
               /\ args.membershipType = "triangular") => result = Rat(1, 3)

\* C16 witness: value 6, target 5, fuzzyFactor 0.3, triangular scores 1/3
C16_Witness ==
    /\ pc = "calculateFuzzyScore"
    /\ args.value = Rat(6, 1)
    /\ args.targetValue = Rat(5, 1)
    /\ args.fuzzyFactor = Rat(3, 10)
    /\ args.membershipType = "triangular"
    /\ result = Rat(1, 3)

\* C16 witness: the trapezoid's falling side, value 6 between c = 5.75 and
\* d = 6.5
C16_WitnessTrapezoid ==
    /\ pc = "calculateFuzzyScore"
    /\ args.value = Rat(6, 1)
    /\ args.targetValue = Rat(5, 1)
    /\ args.fuzzyFactor = Rat(3, 10)
    /\ args.membershipType = "trapezoidal"
    /\ result = Rat(2, 3)

\* C17: triangularMF for all a < b < c: f(b) = 1, f(a) = 0, f(c) = 0, f is 0
\* for x <= a and for x > c, non-decreasing on [a,b] and non-increasing on
\* [b,c], with every value in [0,1].
C17_TriangularShape ==
    (/\ pc = "triangularMF"
     /\ Lt(args.a, args.b)
     /\ Lt(args.b, args.c))
    => LET x == args.x
           a == args.a
           b == args.b
           c == args.c
       IN  /\ InUnitInterval(result)
           /\ x = b => result = One
           /\ x = a => result = Zero
           /\ x = c => result = Zero
           /\ (Le(x, a) \/ Gt(x, c)) => result = Zero
           /\ \A y \in GridVals :
                 /\ (Le(a, x) /\ Le(x, y) /\ Le(y, b))
                      => Le(result, triangularMF(y, a, b, c))
                 /\ (Le(b, x) /\ Le(x, y) /\ Le(y, c))
                      => Ge(result, triangularMF(y, a, b, c))

\* C17 witness: a point strictly inside the rising side, with a degree
\* strictly between 0 and 1
C17_Witness ==
    /\ pc = "triangularMF"
    /\ Lt(args.a, args.x)
    /\ Lt(args.x, args.b)
    /\ Lt(args.b, args.c)
    /\ Gt(result, Zero)
    /\ Lt(result, One)

\* C18: trapezoidalMF for all parameters a <= b <= c <= d and every x in the
\* closed interval [b,c]: f(x) = 1.
C18_TrapezoidPlateau ==
    (/\ pc = "trapezoidalMF"
     /\ Le(args.a, args.b)
     /\ Le(args.b, args.c)
     /\ Le(args.c, args.d)
     /\ Le(args.b, args.x)
     /\ Le(args.x, args.c))
    => result = One

\* C19: invalid shape parameters are rejected with an error: triangularMF
\* when a <= b <= c is violated, trapezoidalMF when a <= b <= c <= d is
\* violated, gaussianMF when sigma <= 0; and a calculateFuzzyScore call that
\* derives such parameters surfaces that error to its caller.
C19_InvalidShapeRejected ==
    /\ (/\ pc = "triangularMF"
        /\ ~(Le(args.a, args.b) /\ Le(args.b, args.c)))
       => result = Thrown
    /\ (/\ pc = "trapezoidalMF"
        /\ ~(Le(args.a, args.b) /\ Le(args.b, args.c) /\ Le(args.c, args.d)))
       => result = Thrown
    /\ (pc = "gaussianMF" /\ Le(args.sigma, Zero))
       => result = Thrown
    /\ (/\ pc = "calculateFuzzyScore"
        /\ IsNumber(args.value)
        /\ IsNumber(args.targetValue)
        /\ \/ /\ args.membershipType \in {"triangular", "trapezoidal"}
              /\ Lt(args.targetValue, Zero)
              /\ Gt(args.fuzzyFactor, Zero)
           \/ /\ args.membershipType = "gaussian"
              /\ Le(Mul(args.targetValue, args.fuzzyFactor), Zero))
       => result = Thrown

\* C20: applyWSM, aggregateStageScores and applyOWA return score 0 whenever
\* the effective weight total of the participating criteria,
\* sum(weight_i * confidence_i) resp. sum(weight_i * ow_i), is 0, including
\* when no criterion participates at all.
C20_DegenerateWeightsScoreZero ==
    /\ (/\ pc \in {"applyWSM", "aggregateStageScores"}
        /\ StatedDenominator(attributes, weights, confidenceScores) = Zero)
       => result.score = Zero
    /\ (/\ pc = "applyOWA"
        /\ OwaDenominator(result.sortedPairs, weights, owaWeights) = Zero)
       => result.score = Zero

(***************************************************************************)
(* Further properties of applyWSM.                                         *)
(***************************************************************************)
ScaleFactors == {Rat(1, 2), Rat(2, 1), Rat(3, 1)}

\* the weight map with every weight multiplied by k
ScaleWeights(wts, k) == [i \in 1..Len(wts) |-> <<wts[i][1], Mul(wts[i][2], k)>>]

\* C21: WSM is scale-invariant: for every attribute map, weight map,
\* confidence map and every k > 0, applyWSM with all weights multiplied by k
\* returns the same score and the same confidence as with the original weights.
C21_WsmScaleInvariant ==
    pc = "applyWSM" =>
      \A k \in ScaleFactors :
         applyWSM(attributes, ScaleWeights(weights, k), confidenceScores) = result

\* C21 witness: two criteria with different non-zero weights and different
\* scores, so that the score depends on the ratio of the weights
C21_Witness ==
    /\ pc = "applyWSM"
    /\ Len(attributes) = 2
    /\ Len(weights) = 2
    /\ attributes[1][2] # attributes[2][2]
    /\ weights[1][2] # weights[2][2]
    /\ weights[1][2] # Zero
    /\ weights[2][2] # Zero
    /\ Gt(result.score, Zero)
    /\ Lt(result.score, One)

(***************************************************************************)
(* Specification SpecString: one call of calculateStringSimilarity on two  *)
(* strings of at most MaxStrLen characters.                                *)
(***************************************************************************)
MaxStrLen == 3

StringChars == {"a", "b", "A", " "}

InitString ==
    /\ pc = "ready"
    /\ attributes = NoObject
    /\ weights = NoObject
    /\ confidenceScores = NoObject
    /\ owaWeights = <<>>
    /\ alphaCutThreshold = Zero
    /\ aggregationMethod = "wsm"
    /\ strategyProfile = "balanced"
    /\ initialWeights = <<>>
    /\ values = <<>>
    /\ candidates = <<>>
    /\ engine = "none"
    /\ \E str1, str2 \in SeqsUpTo(StringChars, MaxStrLen) :
          args = [str1 |-> str1, str2 |-> str2]
    /\ db = NoDb
    /\ result = NoResult

CallCalculateStringSimilarity ==
    /\ pc = "ready"
    /\ pc' = "calculateStringSimilarity"
    /\ result' = calculateStringSimilarity(args.str1, args.str2)
    /\ UNCHANGED inputs

NextString == CallCalculateStringSimilarity

SpecString == InitString /\ [][NextString]_vars

\* the Levenshtein distance with unit costs, by its recurrence on the first
\* characters of the two strings
RECURSIVE StatedLevenshtein(_, _)
StatedLevenshtein(s, t) ==
    IF s = <<>> THEN Len(t)
    ELSE IF t = <<>> THEN Len(s)
    ELSE IF Head(s) = Head(t) THEN StatedLevenshtein(Tail(s), Tail(t))
    ELSE 1 + Min3(StatedLevenshtein(Tail(s), t),
                  StatedLevenshtein(s, Tail(t)),
                  StatedLevenshtein(Tail(s), Tail(t)))

\* C22: calculateStringSimilarity(s1, s2), after lower-casing and trimming both
\* strings, is 1 when both are empty or they are equal, 0 when exactly one is
\* empty, and otherwise 1 - levenshtein(s1, s2) / max(len(s1), len(s2)); hence
\* sim(s, s) = 1, the result is symmetric in its arguments and lies in [0,1].
C22_StringSimilarity ==
    pc = "calculateStringSimilarity" =>
      LET s1 == Trim(ToLowerCase(args.str1))
          s2 == Trim(ToLowerCase(args.str2))
          longest == IF Len(s1) >= Len(s2) THEN Len(s1) ELSE Len(s2)
      IN  /\ (s1 = s2) => result = One
          /\ (s1 # s2 /\ (s1 = <<>> \/ s2 = <<>>)) => result = Zero
          /\ (s1 # s2 /\ s1 # <<>> /\ s2 # <<>>)
               => result = Rat(longest - StatedLevenshtein(s1, s2), longest)
          /\ args.str1 = args.str2 => result = One
          /\ result = calculateStringSimilarity(args.str2, args.str1)
          /\ Ge(result, Zero)
          /\ Le(result, One)

\* C22 witness: two different non-empty strings of different lengths that
\* differ also by case and white space, at a similarity strictly inside (0,1)
C22_Witness ==
    /\ pc = "calculateStringSimilarity"
    /\ args.str1 = <<" ", "A", "b">>
    /\ args.str2 = <<"a">>
    /\ result = Rat(1, 2)

(***************************************************************************)
(* Specification SpecArray: one call of calculateArraySimilarity with the  *)
(* default options, on an array of at most MaxItems items against itself   *)
(* or against another array, one of the two shorter than MaxItems.         *)
(***************************************************************************)
MaxItems == 3

ItemVals == {StringOf(<<"a">>), StringOf(<<"A">>), Rat(5, 1), Rat(6, 1), BooleanOf(TRUE)}

InitArray ==
    /\ pc = "ready"
    /\ attributes = NoObject
    /\ weights = NoObject
    /\ confidenceScores = NoObject
    /\ owaWeights = <<>>
    /\ alphaCutThreshold = Zero
    /\ aggregationMethod = "wsm"
    /\ strategyProfile = "balanced"
    /\ initialWeights = <<>>
    /\ values = <<>>
    /\ candidates = <<>>
    /\ engine = "none"
    /\ \E long \in SeqsUpTo(ItemVals, MaxItems) :
          \/ args = [sourceArray |-> ArrayOf(long), targetArray |-> ArrayOf(long),
                     options |-> DefaultOptions]
          \/ \E short \in SeqsUpTo(ItemVals, MaxItems - 1) :
                \/ args = [sourceArray |-> ArrayOf(long), targetArray |-> ArrayOf(short),
                           options |-> DefaultOptions]
                \/ args = [sourceArray |-> ArrayOf(short), targetArray |-> ArrayOf(long),
                           options |-> DefaultOptions]
    /\ db = NoDb
    /\ result = NoResult

CallCalculateArraySimilarity ==
    /\ pc = "ready"
    /\ pc' = "calculateArraySimilarity"
    /\ result' = calculateArraySimilarity(args.sourceArray, args.targetArray,
                                          args.options)
    /\ UNCHANGED inputs

NextArray == CallCalculateArraySimilarity

SpecArray == InitArray /\ [][NextArray]_vars

\* C23: calculateArraySimilarity(X, X) = 1 with default options for every
\* non-empty array X of strings, numbers and booleans, including arrays with
\* duplicate or near-duplicate elements.
C23_ArraySelfSimilarity ==
    (/\ pc = "calculateArraySimilarity"
     /\ args.sourceArray = args.targetArray
     /\ Len(args.sourceArray[3]) > 0)
    => result = One

\* C23 witness: an array with a duplicate (5, 5) and a near-duplicate (6)
C23_Witness ==
    /\ pc = "calculateArraySimilarity"
    /\ args.sourceArray = ArrayOf(<<Rat(5, 1), Rat(6, 1), Rat(5, 1)>>)
    /\ args.targetArray = args.sourceArray
    /\ result = One

\* the similarities of the pairs the reference matching makes: the rows are
\* taken in order from row i on, each with the first of the still unmatched
\* columns (the set free) of highest similarity, if that exceeds
\* threshold - 0.01
RECURSIVE StatedMatching(_, _, _, _, _)
StatedMatching(rows, cols, free, i, threshold) ==
    IF i > Len(rows) THEN <<>>
    ELSE LET sim(j) == ItemSimilarity(rows[i], cols[j], FALSE)
             eligible == {j \in free : Gt(sim(j), Sub(threshold, Rat(1, 100)))}
         IN  IF eligible = {}
             THEN StatedMatching(rows, cols, free, i + 1, threshold)
             ELSE LET best == CHOOSE j \in eligible :
                                \A k \in eligible :
                                   \/ Gt(sim(j), sim(k))
                                   \/ (sim(j) = sim(k) /\ j <= k)
                  IN  <<sim(best)>> \o StatedMatching(rows, cols, free \ {best},
                                                     i + 1, threshold)

StatedArraySimilarity(source, target, threshold) ==
    IF Len(source) = 0 /\ Len(target) = 0 THEN One
    ELSE IF Len(source) = 0 \/ Len(target) = 0 THEN Zero
    ELSE LET rows == IF Len(target) > Len(source) THEN target ELSE source
             cols == IF Len(target) > Len(source) THEN source ELSE target
             matched == StatedMatching(rows, cols, 1..Len(cols), 1, threshold)
             quality == IF Len(matched) > 0
                        THEN Div(SumSeq(matched), Rat(Len(matched), 1)) ELSE Zero
         IN  Add(Mul(Rat(4, 10), quality),
                 Mul(Rat(6, 10), Rat(Len(matched), Len(cols))))

\* C25: calculateArraySimilarity equals the greedy reference matching: 1 for
\* two empty arrays, 0 if exactly one is empty; otherwise the elements of the
\* longer of the two arrays are processed in order as rows, each row taking
\* the still-unmatched element of the other array with the highest pairwise
\* similarity provided it exceeds threshold - 0.01, every element being
\* matched at most once; the result is 0.4 * (mean similarity of the matched
\* pairs, 0 if none) + 0.6 * (matches / min(|source|, |target|)) and lies in
\* [0,1].
C25_GreedyReference ==
    pc = "calculateArraySimilarity" =>
      /\ result = StatedArraySimilarity(args.sourceArray[3], args.targetArray[3],
                                        args.options.threshold)
      /\ Ge(result, Zero)
      /\ Le(result, One)

(***************************************************************************)
(* The job routes: POST / (create), PUT /:id/refine-weights and            *)
(* PUT /:id/finalize-weights.  db.jobs is the Job collection, a job's id   *)
(* its position in it; result is the status of the response.               *)
(***************************************************************************)
MaxJobs == 1
MaxHR == 2

\* obj[key] = value
Put(obj, key, value) ==
    IF key \in KeysOf(obj)
    THEN [i \in 1..Len(obj) |-> IF obj[i][1] = key THEN <<key, value>> ELSE obj[i]]
    ELSE Append(obj, <<key, value>>)

\* isFloat({ min: 0, max: 1 })
IsUnitFloat(w) == IsNum(w) /\ Ge(w, Zero) /\ Le(w, One)

\* criteria.forEach(criterion => finalWeights[criterion.name] = criterion.weight)
RECURSIVE CriteriaWeights(_, _, _)
CriteriaWeights(criteria, i, finalWeights) ==
    IF i > Len(criteria) THEN finalWeights
    ELSE CriteriaWeights(criteria, i + 1,
                         Put(finalWeights, criteria[i].name, criteria[i].weight))

\* job.save() rejects a finalWeights map (Map of Number) holding NaN
SaveRejects(finalWeights) == \E i \in 1..Len(finalWeights) : finalWeights[i][2] = NaN

\* the document with the given id after job.finalWeights = ..., job.save()
WithJob(jobs, id, job) == [k \in 1..Len(jobs) |-> IF k = id THEN job ELSE jobs[k]]

\* weights a request carries; 2 fails isFloat({ min: 0, max: 1 })
RequestWeights == {Zero, Rat(1, 2), Rat(2, 1)}

InitJob ==
    /\ pc = "ready"
    /\ attributes = NoObject
    /\ weights = NoObject
    /\ confidenceScores = NoObject
    /\ owaWeights = <<>>
    /\ alphaCutThreshold = Zero
    /\ aggregationMethod = "wsm"
    /\ strategyProfile = "balanced"
    /\ initialWeights = <<>>
    /\ values = <<>>
    /\ candidates = <<>>
    /\ engine = "timsort"
    /\ args = NoArgs
    /\ db = [jobs |-> <<>>]
    /\ result = NoResult

\* POST /, the request leaving usesMultipleHR to its default; the collection
\* holds at most MaxJobs documents
CreateJob ==
    /\ Len(db.jobs) < MaxJobs
    /\ \E criteria \in SeqsUpTo([name : 1..NumCriteria, weight : RequestWeights], NumCriteria) :
       /\ pc' = "POST /"
       /\ args' = [criteria |-> criteria]
       /\ IF \E i \in 1..Len(criteria) : ~IsUnitFloat(criteria[i].weight)
          THEN result' = 400 /\ db' = db
          ELSE /\ result' = 201
               /\ db' = [db EXCEPT !.jobs = Append(@,
                            [usesMultipleHR |-> FALSE,
                             finalWeights |-> CriteriaWeights(criteria, 1, <<>>)])]
    /\ UNCHANGED <<attributes, weights, confidenceScores, owaWeights,
                   alphaCutThreshold, aggregationMethod, strategyProfile,
                   initialWeights, values, candidates, engine>>

\* PUT /:id/refine-weights; finalWeights is what applyDelphiTechnique returns
RefineWeights ==
    \E id \in 1..MaxJobs :
    \E hrWeights \in SeqsUpTo(ObjectsOver(NumCriteria, {Zero, Rat(1, 2)}), MaxHR) :
    \E finalWeights \in {applyDelphiTechnique(hrWeights).finalWeights} :
       /\ pc' = "PUT /:id/refine-weights"
       /\ args' = [id |-> id, hrWeights |-> hrWeights]
       /\ IF Len(hrWeights) = 0
          THEN result' = 400 /\ db' = db
          ELSE IF id > Len(db.jobs)
          THEN result' = 404 /\ db' = db
          ELSE IF SaveRejects(finalWeights)
          THEN result' = 500 /\ db' = db
          ELSE /\ result' = 200
               /\ db' = [db EXCEPT !.jobs = WithJob(@, id,
                            [@[id] EXCEPT !.finalWeights = finalWeights,
                                          !.usesMultipleHR = TRUE])]
       /\ UNCHANGED <<attributes, weights, confidenceScores, owaWeights,
                      alphaCutThreshold, aggregationMethod, strategyProfile,
                      initialWeights, values, candidates, engine>>

\* PUT /:id/finalize-weights
FinalizeWeights ==
    \E id \in 1..MaxJobs :
    \E requested \in ObjectsOver(NumCriteria, RequestWeights) :
       /\ pc' = "PUT /:id/finalize-weights"
       /\ args' = [id |-> id, weights |-> requested]
       /\ IF \E i \in 1..Len(requested) : ~IsUnitFloat(requested[i][2])
          THEN result' = 400 /\ db' = db
          ELSE IF id > Len(db.jobs)
          THEN result' = 404 /\ db' = db
          ELSE LET totalWeight == SumSeq([i \in 1..Len(requested) |-> requested[i][2]])
                   normalizedWeights ==
                       [i \in 1..Len(requested) |->
                           <<requested[i][1], Div(requested[i][2], totalWeight)>>]
               IN  IF Gt(totalWeight, Zero)
                   THEN /\ result' = 200
                        /\ db' = [db EXCEPT !.jobs = WithJob(@, id,
                                     [@[id] EXCEPT !.finalWeights = normalizedWeights])]
                   ELSE result' = 400 /\ db' = db
       /\ UNCHANGED <<attributes, weights, confidenceScores, owaWeights,
                      alphaCutThreshold, aggregationMethod, strategyProfile,
                      initialWeights, values, candidates, engine>>

NextJob == CreateJob \/ RefineWeights \/ FinalizeWeights

SpecJob == InitJob /\ [][NextJob]_vars

\* C24: after any sequence of job creation, refine-weights and
\* finalize-weights requests that succeed, the weights stored as the job's
\* finalWeights sum to 1.
C24_FinalWeightsSumToOne ==
    \A id \in 1..Len(db.jobs) :
       SumSeq([i \in 1..Len(db.jobs[id].finalWeights) |->
                 db.jobs[id].finalWeights[i][2]]) = One

(***************************************************************************)
(* The positional weights of POST /final/:jobId under an alpha-cut.        *)
(***************************************************************************)
\* the stated vector of a profile for n scores
StatedProfile(profile, n) ==
    [i \in 1..n |->
        CASE profile = "optimistic" -> Rat(n - i + 1, (n * (n + 1)) \div 2)
          [] profile = "pessimistic" -> Rat(i, (n * (n + 1)) \div 2)
          [] OTHER -> Rat(1, n)]

\* the positional weights applyOWA pairs with the n sorted scores
AppliedOwaWeights(res) == SubSeq(res.owaWeights, 1, Len(res.stageScores))

C27_ExactMatchScoresOne ==
    (/\ pc = "calculateFuzzyScore"
     /\ IsNumber(args.targetValue)
     /\ args.value = args.targetValue
     /\ args.membershipType \in {"simple", "triangular", "trapezoidal", "gaussian"})
    => result = One

\* the attribute maps holding the pairs of attrs in any insertion order
Reorderings(attrs) ==
    {[i \in 1..Len(attrs) |-> attrs[f[i]]] :
        f \in {g \in [1..Len(attrs) -> 1..Len(attrs)] :
                 \A i, j \in 1..Len(attrs) : g[i] = g[j] => i = j}}

\* C28: applyOWA depends only on the content of its attribute map, not on the
\* order in which the attributes are enumerated: the same criterion-score
\* pairs in another insertion order give the same score for the same declared
\* and positional weights, also when several criteria have equal scores.
C28_OwaInsertionOrderIrrelevant ==
    pc = "applyOWA" =>
        \A other \in Reorderings(attributes) :
            applyOWA(other, weights, owaWeights).score = result.score

(***************************************************************************)
(* The interview routes: POST / (schedule), PUT /:id/stage1..3 and         *)
(* PUT /:id/cancel.  db.interviews is the Interview collection, an         *)
(* interview's id its position in it; db.candidate holds the stages of the *)
(* candidate the interviews belong to.  `score` stands for the score field *)
(* of a stage (communicationScore, problemSolvingScore, systemDesignScore).*)
(***************************************************************************)
MaxInterviews == 1

\* the schema defaults of a stage, and of the stages of a candidate
NewStage == [scheduled |-> FALSE, completed |-> FALSE, score |-> Undefined]
NewCandidateStage == [completed |-> FALSE, score |-> Undefined]

\* interviewSchema.pre('save'): the status follows the completed stages
PreSave(interview) ==
    LET done == {st \in StageSet : interview.stages[st].completed}
    IN  IF done = StageSet THEN [interview EXCEPT !.status = "completed"]
        ELSE IF done # {} THEN [interview EXCEPT !.status = "in-progress"]
        ELSE interview

InitInterview ==
    /\ pc = "ready"
    /\ attributes = NoObject
    /\ weights = NoObject
    /\ confidenceScores = NoObject
    /\ owaWeights = <<>>
    /\ alphaCutThreshold = Zero
    /\ aggregationMethod = "wsm"
    /\ strategyProfile = "balanced"
    /\ initialWeights = <<>>
    /\ values = <<>>
    /\ candidates = <<>>
    /\ engine = "none"
    /\ args = NoArgs
    /\ db = [interviews |-> <<>>, candidate |-> [st \in StageSet |-> NewCandidateStage]]
    /\ result = NoResult

\* POST /, for an existing candidate and job and a request without stages;
\* the collection holds at most MaxInterviews documents
ScheduleInterview ==
    /\ Len(db.interviews) < MaxInterviews
    /\ pc' = "POST /"
    /\ args' = NoArgs
    /\ result' = 201
    /\ db' = [db EXCEPT !.interviews = Append(@,
                 PreSave([stages |-> [st \in StageSet |-> NewStage],
                          status |-> "scheduled", cancelReason |-> Undefined]))]
    /\ UNCHANGED <<attributes, weights, confidenceScores, owaWeights,
                   alphaCutThreshold, aggregationMethod, strategyProfile,
                   initialWeights, values, candidates, engine>>

\* PUT /:id/stage1, stage2, stage3: Interview.findByIdAndUpdate with $set
\* (no save, so no pre('save') hook), then the candidate's stage
UpdateStage(route, stage) ==
    \E id \in 1..MaxInterviews :
    \E completed \in {BooleanOf(TRUE), BooleanOf(FALSE), Undefined} :
    \E score \in {Undefined, Rat(1, 2), Rat(2, 1)} :
       /\ pc' = route
       /\ args' = [id |-> id, completed |-> completed, score |-> score]
       /\ IF ~IsBoolean(completed) \/ (score # Undefined /\ ~IsUnitFloat(score))
          THEN result' = 400 /\ db' = db
          ELSE IF id > Len(db.interviews)
          THEN result' = 404 /\ db' = db
          ELSE /\ result' = 200
               /\ db' = [db EXCEPT
                    !.interviews[id].stages[stage] =
                        [scheduled |-> TRUE, completed |-> completed[3],
                         score |-> IF score # Undefined THEN score ELSE @.score],
                    !.candidate[stage] =
                        IF completed[3] /\ score # Undefined
                        THEN [completed |-> TRUE, score |-> score]
                        ELSE @]
       /\ UNCHANGED <<attributes, weights, confidenceScores, owaWeights,
                      alphaCutThreshold, aggregationMethod, strategyProfile,
                      initialWeights, values, candidates, engine>>

PutStage1 == UpdateStage("PUT /:id/stage1", "phoneScreen")
PutStage2 == UpdateStage("PUT /:id/stage2", "codingInterview")
PutStage3 == UpdateStage("PUT /:id/stage3", "onsiteInterview")

\* PUT /:id/cancel: interview.status = 'cancelled', interview.save()
CancelInterview ==
    \E id \in 1..MaxInterviews :
    \E reason \in {Undefined, StringOf(<<"a">>)} :
       /\ pc' = "PUT /:id/cancel"
       /\ args' = [id |-> id, reason |-> reason]
       /\ IF id > Len(db.interviews)
          THEN result' = 404 /\ db' = db
          ELSE /\ result' = 200
               /\ db' = [db EXCEPT !.interviews[id] =
                          PreSave([@ EXCEPT !.status = "cancelled",
                                            !.cancelReason =
                                               IF reason # Undefined THEN reason ELSE @])]
       /\ UNCHANGED <<attributes, weights, confidenceScores, owaWeights,
                      alphaCutThreshold, aggregationMethod, strategyProfile,
                      initialWeights, values, candidates, engine>>

NextInterview ==
    ScheduleInterview \/ PutStage1 \/ PutStage2 \/ PutStage3 \/ CancelInterview

SpecInterview == InitInterview /\ [][NextInterview]_vars

\* C29: after a successful cancel request on an existing interview the stored
\* interview has status 'cancelled', whatever stage results were recorded
\* before the cancel.
C29_CancelledAfterCancel ==
    (pc = "PUT /:id/cancel" /\ result = 200) =>
        db.interviews[args.id].status = "cancelled"

(***************************************************************************)
(* POST /job/:jobId/threshold-filter.  db.jobs is the Job collection and   *)
(* db.candidates the candidates of its one job, each created with the      *)
(* schema default passedThreshold = true.                                  *)
(***************************************************************************)
\* Candidate.updateMany({ jobId, _id: { $nin: filteredIds } }, { passedThreshold: false })
UpdateManyNotIn(cands, filteredIds) ==
    [i \in 1..Len(cands) |->
        IF cands[i].id \notin filteredIds
        THEN [cands[i] EXCEPT !.passedThreshold = FALSE]
        ELSE cands[i]]

StoredAttributeVals == {Rat(44, 10), Rat(46, 10), StringOf(<<"a">>)}

InitThreshold ==
    /\ pc = "ready"
    /\ attributes = NoObject
    /\ weights = NoObject
    /\ confidenceScores = NoObject
    /\ owaWeights = <<>>
    /\ alphaCutThreshold = Zero
    /\ aggregationMethod = "wsm"
    /\ strategyProfile = "balanced"
    /\ initialWeights = <<>>
    /\ values = <<>>
    /\ candidates = <<>>
    /\ engine = "none"
    /\ args = NoArgs
    /\ \E n \in 0..MaxFiltered :
          \E f \in [1..n -> ObjectsOver(NumCriteria, StoredAttributeVals)] :
             db = [jobs |-> <<"job">>,
                   candidates |-> [i \in 1..n |->
                       [id |-> i, attributes |-> f[i], passedThreshold |-> TRUE]]]
    /\ result = NoResult

PostThresholdFilter ==
    \E jobId \in 1..(Len(db.jobs) + 1) :
    \E thresholds \in ObjectsOver(NumCriteria, ThresholdCriteria) :
       /\ pc' = "POST /job/:jobId/threshold-filter"
       /\ args' = [jobId |-> jobId, thresholds |-> thresholds]
       /\ IF Len(thresholds) = 0
          THEN result' = 400 /\ db' = db
          ELSE IF jobId > Len(db.jobs)
          THEN result' = 404 /\ db' = db
          ELSE LET filtered == applyHardCriteriaFilter(db.candidates, thresholds,
                                                       DefaultThresholdTolerance)
                   filteredIds == {filtered[i].id : i \in 1..Len(filtered)}
               IN  /\ result' = 200
                   /\ db' = [db EXCEPT !.candidates = UpdateManyNotIn(@, filteredIds)]
       /\ UNCHANGED <<attributes, weights, confidenceScores, owaWeights,
                      alphaCutThreshold, aggregationMethod, strategyProfile,
                      initialWeights, values, candidates, engine>>

NextThreshold == PostThresholdFilter

SpecThreshold == InitThreshold /\ [][NextThreshold]_vars

\* C30: after every threshold-filter request for a job, in any sequence of
\* such requests, each candidate of the job has passedThreshold = true if and
\* only if it passes applyHardCriteriaFilter under the thresholds of the most
\* recent request.
C30_PassedThresholdTracksLastRequest ==
    (pc = "POST /job/:jobId/threshold-filter" /\ result = 200) =>
        LET passing == applyHardCriteriaFilter(db.candidates, args.thresholds,
                                               DefaultThresholdTolerance)
        IN  \A i \in 1..Len(db.candidates) :
               db.candidates[i].passedThreshold
                 <=> \E k \in 1..Len(passing) : passing[k].id = db.candidates[i].id

====
